---- MODULE Spec2Model ----
(***************************************************************************)
(* Model of git_laws: the amendment namer of the PISRS client and its      *)
(* fallback letters, the minister lookup over the flattened registry and   *)
(* the resolver of combine_ministers, the manual lookup over the           *)
(* government terms, the timeline builder and the commit message, one      *)
(* convert_law run that turns the consolidated versions of a law into      *)
(* commits, and the script main().                                         *)
(*                                                                         *)
(* Text is a sequence of one-character strings, so that substring tests,   *)
(* lower-casing and the regular expression of the namer are computed and   *)
(* not assumed.  A date is the integer YYYYMMDD; NoDate is the empty or    *)
(* missing string and BadDate a string that strptime rejects.              *)
(***************************************************************************)
EXTENDS Integers, Sequences, FiniteSets, TLC

VARIABLES
  namer,            \* one call of _determine_amendment_name: inputs and result
  lookup,           \* calls of the resolvers on one registry: inputs and results
  manual,           \* calls of ManualMinisterLookup on one dataset
  builder,          \* one call of a LawProcessor method: its input and result
  script,           \* one run of main() of main.py
  api,              \* what the PISRS API holds for the law being converted
  pc,               \* position of convert_law
  law_versions,     \* the DataFrame returned by load_law_versions (rows)
  law_timeline,     \* the list returned by get_law_timeline
  pos,              \* number of timeline entries the loop has taken
  processed_count,
  skipped_count,
  worktree,         \* files of the output directory: path -> content
  index,            \* the staged tree
  commits,          \* the history of the repository, oldest first
  repo,             \* GitManager.repo: "none", "open" or "closed"
  result            \* return value of convert_law

runVars == <<api, pc, law_versions, law_timeline, pos, processed_count,
             skipped_count, worktree, index, commits, repo, result>>

auxVars == <<manual, builder, script>>

vars == <<namer, lookup, auxVars, runVars>>

(***************************************************************************)
(* Bounds                                                                  *)
(***************************************************************************)
MaxVersionNumber == 30
MaxAmendments == 3

(***************************************************************************)
(* Text helpers (Python str operations)                                    *)
(***************************************************************************)
\* chr(65) .. chr(122)
AsciiFrom65 ==
  << "A","B","C","D","E","F","G","H","I","J","K","L","M",
     "N","O","P","Q","R","S","T","U","V","W","X","Y","Z",
     "[","<backslash>","]","^","_","<backtick>",
     "a","b","c","d","e","f","g","h","i","j","k","l","m",
     "n","o","p","q","r","s","t","u","v","w","x","y","z" >>

\* chr(ord('A') + i)
ChrFromA(i) == AsciiFrom65[i + 1]

\* str.lower() of one character
LowerChar(c) ==
  IF \E i \in 1..26 : AsciiFrom65[i] = c
  THEN AsciiFrom65[(CHOOSE i \in 1..26 : AsciiFrom65[i] = c) + 32]
  ELSE c

\* str.lower()
Lower(s) == [i \in 1..Len(s) |-> LowerChar(s[i])]

\* Python "sub in s"
Contains(sub, s) ==
  \E i \in 0..(Len(s) - Len(sub)) : SubSeq(s, i + 1, i + Len(sub)) = sub

Digits == << "0","1","2","3","4","5","6","7","8","9" >>

\* str(n) for a natural number n, as f"{version_number}" renders it
RECURSIVE Str(_)
Str(n) == IF n < 10 THEN << Digits[n + 1] >>
          ELSE Str(n \div 10) \o << Digits[(n % 10) + 1] >>

(***************************************************************************)
(* Dates                                                                   *)
(***************************************************************************)
NoDate == 0
BadDate == 99999999

\* datetime.strptime(s, '%Y-%m-%d') succeeds
Parseable(d) == d # NoDate /\ d # BadDate

(***************************************************************************)
(* Amendment namer: PISRSClient._determine_amendment_name                  *)
(***************************************************************************)
\* re.search(r'\(([^)]+)\)$', name): the start of the leftmost match, 0 when
\* there is none.  '$' matches at the end and before one trailing newline.
KraticaEnds(name) ==
  { e \in 1..Len(name) :
      /\ name[e] = ")"
      /\ \/ e = Len(name)
         \/ e = Len(name) - 1 /\ name[Len(name)] = "\n" }

KraticaMatchAt(name, i, e) ==
  /\ name[i] = "("
  /\ e > i + 1
  /\ \A j \in (i + 1)..(e - 1) : name[j] # ")"

KraticaMatchStarts(name) ==
  { i \in 1..Len(name) : \E e \in KraticaEnds(name) : KraticaMatchAt(name, i, e) }

KraticaMatches(name) == KraticaMatchStarts(name) # {}

\* kratica_match.group(1) of the leftmost match
KraticaGroup(name) ==
  LET i == CHOOSE s \in KraticaMatchStarts(name) :
             \A t \in KraticaMatchStarts(name) : s <= t
      e == CHOOSE x \in KraticaEnds(name) : KraticaMatchAt(name, i, x)
  IN SubSeq(name, i + 1, e - 1)

\* The fallback with the two-letter branch computed from letter_idx itself
\* (the 26 single letters not subtracted).
FallbackName_NoOffset(version_number, base_kratica) ==
  IF version_number = 2 THEN base_kratica \o << "A" >>
  ELSE IF version_number = 3 THEN base_kratica \o << "B" >>
  ELSE IF version_number = 4 THEN base_kratica \o << "C" >>
  ELSE LET letter_idx == version_number - 2 IN
       IF letter_idx < 26
       THEN base_kratica \o << ChrFromA(letter_idx) >>
       ELSE base_kratica \o << ChrFromA(letter_idx \div 26),
                               ChrFromA(letter_idx % 26) >>

\* The fallback with letter_idx counted from version 1 in the general branch.
FallbackName_IdxFromOne(version_number, base_kratica) ==
  IF version_number = 2 THEN base_kratica \o << "A" >>
  ELSE IF version_number = 3 THEN base_kratica \o << "B" >>
  ELSE IF version_number = 4 THEN base_kratica \o << "C" >>
  ELSE LET letter_idx == version_number - 1 IN
       IF letter_idx < 26
       THEN base_kratica \o << ChrFromA(letter_idx) >>
       ELSE base_kratica \o << ChrFromA((letter_idx - 26) \div 26),
                               ChrFromA((letter_idx - 26) % 26) >>

\* The fallback with one letter for every number, starting again at 'A'
\* after 'Z'.
FallbackName_WrapAround(version_number, base_kratica) ==
  IF version_number = 2 THEN base_kratica \o << "A" >>
  ELSE IF version_number = 3 THEN base_kratica \o << "B" >>
  ELSE IF version_number = 4 THEN base_kratica \o << "C" >>
  ELSE LET letter_idx == version_number - 2 IN
       base_kratica \o << ChrFromA(letter_idx % 26) >>

\* lines 340-357: the fallback name for a version number
FallbackName(version_number, base_kratica) ==
  IF version_number = 2 THEN base_kratica \o << "A" >>
  ELSE IF version_number = 3 THEN base_kratica \o << "B" >>
  ELSE IF version_number = 4 THEN base_kratica \o << "C" >>
  ELSE LET letter_idx == version_number - 2 IN
       IF letter_idx < 26
       THEN base_kratica \o << ChrFromA(letter_idx) >>
       ELSE base_kratica \o << ChrFromA((letter_idx - 26) \div 26),
                               ChrFromA((letter_idx - 26) % 26) >>

\* lines 319-338: the loop over the amendments, from list position j on;
\* "none" when the loop ends without a return.
RECURSIVE AmendmentLoop(_, _, _)
AmendmentLoop(j, version_number, amendments) ==
  IF j > Len(amendments) THEN "none"
  ELSE IF /\ KraticaMatches(amendments[j])
          /\ version_number <= Len(amendments)
          /\ 0 <= version_number - 2
          /\ version_number - 2 < Len(amendments)
          /\ KraticaMatches(amendments[version_number - 2 + 1])
       THEN KraticaGroup(amendments[version_number - 2 + 1])
       ELSE AmendmentLoop(j + 1, version_number, amendments)

\* The namer without the early returns for a missing or unparseable date.
DetermineAmendmentName_NoDateCheck(npb_date, version_number, amendments, base_kratica) ==
  IF version_number = 1 THEN base_kratica
  ELSE LET found == AmendmentLoop(1, version_number, amendments) IN
       IF found # "none" THEN found
       ELSE FallbackName(version_number, base_kratica)

\* _determine_amendment_name(npb_data, version_number, amendments, base_kratica)
\* npb_date is npb_data.get('datumDokumenta', ''); an amendment is its 'naziv'.
DetermineAmendmentName(npb_date, version_number, amendments, base_kratica) ==
  IF version_number = 1 THEN base_kratica
  ELSE IF ~Parseable(npb_date)
       THEN base_kratica \o << "-", "v" >> \o Str(version_number)
       ELSE LET found == AmendmentLoop(1, version_number, amendments) IN
            IF found # "none" THEN found
            ELSE FallbackName(version_number, base_kratica)

(***************************************************************************)
(* Date conversions between the API, the DataFrame and the timeline        *)
(***************************************************************************)
\* pandas' missing timestamp
NaT == 0

\* the string '' of a D_SPREJEMA column
EmptyDate == 0

\* PISRSClient._convert_date: 'YYYY-MM-DD' to 'DD.MM.YY', here the number
\* DDMMYY; '' for a missing date; the string itself when strptime rejects it.
ConvertDate(date_str) ==
  IF date_str = NoDate THEN EmptyDate
  ELSE IF date_str = BadDate THEN BadDate
  ELSE (date_str % 100) * 10000 + ((date_str \div 100) % 100) * 100
         + ((date_str \div 10000) % 100)

\* pd.to_datetime(column, format="%d.%m.%y") raises for the value
ToDatetimeRaises(d_sprejema) == d_sprejema = BadDate

\* pd.to_datetime(value, format="%d.%m.%y"): '' becomes NaT, a two-digit year
\* 69..99 is 19yy and 00..68 is 20yy; the Timestamp as the number YYYYMMDD.
ToDatetime(d_sprejema) ==
  IF d_sprejema = EmptyDate THEN NaT
  ELSE LET yy == d_sprejema % 100
           mm == (d_sprejema \div 100) % 100
           dd == d_sprejema \div 10000
           year == IF yy >= 69 THEN 1900 + yy ELSE 2000 + yy
       IN year * 10000 + mm * 100 + dd

(***************************************************************************)
(* Sorting                                                                 *)
(***************************************************************************)
\* list.sort(key=...): the stable ascending sort of seq by the numbers keys[i]
StableSort(seq, keys) ==
  LET n == Len(seq)
      rank(i) == Cardinality({ j \in 1..n :
                     keys[j] < keys[i] \/ (keys[j] = keys[i] /\ j < i) }) + 1
  IN [r \in 1..n |-> seq[CHOOSE i \in 1..n : rank(i) = r]]

\* list.sort(key=..., reverse=True)
StableSortDescending(seq, keys) ==
  LET n == Len(seq)
      rank(i) == Cardinality({ j \in 1..n :
                     keys[j] > keys[i] \/ (keys[j] = keys[i] /\ j < i) }) + 1
  IN [r \in 1..n |-> seq[CHOOSE i \in 1..n : rank(i) = r]]

\* DataFrame.sort_values(column) with the default quicksort, which promises
\* no order among equal keys: every arrangement of the rows that is ascending
\* in keys.  NaT rows come last (na_position='last').
SortValuesResults(seq, keys) ==
  LET n == Len(seq)
      key(i) == IF keys[i] = NaT THEN BadDate + 1 ELSE keys[i]
      perms == { f \in [1..n -> 1..n] :
                   /\ \A a, b \in 1..n : a # b => f[a] # f[b]
                   /\ \A a \in 1..n : a < n => key(f[a]) <= key(f[a + 1]) }
  IN { [r \in 1..n |-> seq[f[r]]] : f \in perms }

(***************************************************************************)
(* PISRSClient.get_historical_npb_versions                                 *)
(***************************************************************************)
PreparedBy == << "P", "r", "e", "p", "a", "r", "e", "d", " ", "b", "y", ":", " " >>
AdoptedBy == << "A", "d", "o", "p", "t", "e", "d", " ", "b", "y", ":", " " >>
BarSeparator == << " ", "|", " " >>

\* lines 78-98: the government metadata of the base law; an absent ministry
\* or body is the empty text
GovernmentMetadata(responsible_ministry, adopting_body) ==
  [responsible_ministry |-> responsible_ministry,
   adopting_body |-> adopting_body,
   government_info |->
     IF responsible_ministry # << >> /\ adopting_body # << >>
     THEN PreparedBy \o responsible_ministry \o BarSeparator
            \o AdoptedBy \o adopting_body
     ELSE IF responsible_ministry # << >> THEN PreparedBy \o responsible_ministry
     ELSE IF adopting_body # << >> THEN AdoptedBy \o adopting_body
     ELSE << >>]

\* get_historical_npb_versions(moped_id) against the API state law; the
\* empty list when the law is not found, has no EPA/SOP/EVA identifier or no
\* NPB version.  date_accepted is the column load_law_versions adds.
GetHistoricalNpbVersions(law) ==
  IF ~law.found \/ ~law.has_identifiers \/ law.npb_versions = << >>
  THEN << >>
  ELSE LET npb_versions ==
             StableSort(law.npb_versions,
                        [i \in 1..Len(law.npb_versions) |->
                           law.npb_versions[i].datumDokumenta])
       IN [i \in 1..Len(npb_versions) |->
            LET npb == npb_versions[i]
                version_number == i
                amendment_name ==
                  DetermineAmendmentName(npb.datumDokumenta, version_number,
                                         law.amendments, law.kratica)
            IN [ID |-> Str(npb.id),
                KRATICA |-> amendment_name,
                NASLOV |-> npb.naziv,
                D_SPREJEMA |-> ConvertDate(npb.datumDokumenta),
                raw |-> npb,
                government_metadata |->
                  GovernmentMetadata(law.responsible_ministry, law.adopting_body),
                amendment_name |-> amendment_name,
                version_number |-> version_number,
                date_accepted |-> NaT]]

(***************************************************************************)
(* LawProcessor: validation, timeline, commit message                      *)
(***************************************************************************)
\* a missing value of a DataFrame cell (None or NaN), for which pd.isna holds;
\* no text, since a text is a sequence of single characters
NaN == << "NaN" >>

\* isinstance(value, pd.Timestamp) for a date_accepted cell: BadDate stands
\* for a cell that holds a string
IsTimestamp(value) == value # NaT /\ value # BadDate

\* validate_law_data without the check of the responsible ministry (lines
\* 127-131)
ValidateLawData_NoMinistryCheck(law_row) ==
  /\ law_row.ID # NaN
  /\ law_row.KRATICA # NaN
  /\ law_row.NASLOV # NaN
  /\ law_row.date_accepted # NaT
  /\ IsTimestamp(law_row.date_accepted)

\* validate_law_data(law_row): ID, KRATICA, NASLOV and date_accepted must not
\* be missing (pd.isna), date_accepted must be a Timestamp and the
\* responsible ministry of the government metadata non-empty.  The empty
\* string is not missing.
ValidateLawData(law_row) ==
  /\ law_row.ID # NaN
  /\ law_row.KRATICA # NaN
  /\ law_row.NASLOV # NaN
  /\ law_row.date_accepted # NaT
  /\ IsTimestamp(law_row.date_accepted)
  /\ law_row.government_metadata.responsible_ministry # << >>

\* extract_law_metadata(law_row)
ExtractLawMetadata(law_row) ==
  [law_id |-> law_row.ID,
   law_code |-> law_row.KRATICA,
   law_title |-> law_row.NASLOV,
   law_date |-> law_row.date_accepted,
   government_metadata |-> law_row.government_metadata,
   amendment_name |-> law_row.amendment_name]

\* the valid rows of the DataFrame, as metadata, in row order (lines 149-155)
ValidEntries(rows) ==
  LET valid == SelectSeq(rows, ValidateLawData)
  IN [i \in 1..Len(valid) |-> ExtractLawMetadata(valid[i])]

\* get_law_timeline with timeline.sort(..., reverse=True)
GetLawTimeline_Descending(rows) ==
  LET timeline == ValidEntries(rows)
  IN StableSortDescending(timeline,
                          [i \in 1..Len(timeline) |-> timeline[i].law_date])

\* get_law_timeline without the sort of line 158: the valid rows in the
\* order of the DataFrame
GetLawTimeline_Unsorted(rows) == ValidEntries(rows)

\* get_law_timeline with a sort that is not stable: entries with the same
\* law_date come out in the reverse of their order in the DataFrame
GetLawTimeline_TiesReversed(rows) ==
  LET timeline == ValidEntries(rows)
      n == Len(timeline)
      rank(i) == Cardinality({ j \in 1..n :
                     \/ timeline[j].law_date < timeline[i].law_date
                     \/ timeline[j].law_date = timeline[i].law_date /\ j > i }) + 1
  IN [r \in 1..n |-> timeline[CHOOSE i \in 1..n : rank(i) = r]]

\* get_law_timeline(law_versions)
GetLawTimeline(rows) ==
  LET timeline == ValidEntries(rows)
  IN StableSort(timeline, [i \in 1..Len(timeline) |-> timeline[i].law_date])

Dash == << " ", "-", " " >>

\* generate_commit_message that appends the government_info unconditionally
GenerateCommitMessage_AlwaysSecondLine(metadata) ==
  metadata.amendment_name \o Dash \o metadata.law_id \o Dash \o metadata.law_title
    \o << "\n" >> \o metadata.government_metadata.government_info

\* generate_commit_message(metadata)
GenerateCommitMessage(metadata) ==
  LET first == metadata.amendment_name \o Dash \o metadata.law_id
                 \o Dash \o metadata.law_title
  IN IF metadata.government_metadata.government_info # << >>
     THEN first \o << "\n" >> \o metadata.government_metadata.government_info
     ELSE first

(***************************************************************************)
(* Minister lookup over the flattened registry: MinisterLookup             *)
(*                                                                         *)
(* An appointment (an entry of data["ministers"]) is a record              *)
(*   name, start_date, end_date, ministry                                  *)
(* whose ministry is [kind, text, en, has_en, sl, has_sl]: kind "plain"    *)
(* with text (the empty text when the key is missing), or kind "dict" with *)
(* the keys 'en' and 'sl', each of which may be missing.                   *)
(***************************************************************************)
NoneResult  == [kind |-> "none",  name |-> "", start_date |-> NoDate,
                end_date |-> NoDate, ministry |-> << >>]
RaiseResult == [kind |-> "raise", name |-> "", start_date |-> NoDate,
                end_date |-> NoDate, ministry |-> << >>]

\* dict.get(key, "") of a bilingual ministry
GetOrEmpty(has, text) == IF has THEN text ELSE << >>

\* _ministry_matches without str.lower() (a case-sensitive comparison)
MinistryMatches_CaseSensitive(minister, ministry_query) ==
  IF minister.ministry.kind = "dict"
  THEN LET ministry_en == GetOrEmpty(minister.ministry.has_en, minister.ministry.en)
           ministry_sl == GetOrEmpty(minister.ministry.has_sl, minister.ministry.sl)
           query == ministry_query
       IN \/ Contains(query, ministry_en)
          \/ Contains(query, ministry_sl)
          \/ Contains(ministry_en, query)
          \/ Contains(ministry_sl, query)
  ELSE Contains(ministry_query, minister.ministry.text)

\* MinisterLookup._ministry_matches(minister, ministry_query)
MinistryMatches(minister, ministry_query) ==
  IF minister.ministry.kind = "dict"
  THEN LET ministry_en == Lower(GetOrEmpty(minister.ministry.has_en, minister.ministry.en))
           ministry_sl == Lower(GetOrEmpty(minister.ministry.has_sl, minister.ministry.sl))
           query == Lower(ministry_query)
       IN \/ Contains(query, ministry_en)
          \/ Contains(query, ministry_sl)
          \/ Contains(ministry_en, query)
          \/ Contains(ministry_sl, query)
  ELSE Contains(Lower(ministry_query), Lower(minister.ministry.text))

\* The default argument minister["ministry"]["en"] of _get_ministry_name is
\* evaluated before .get, so a bilingual field without 'en' raises KeyError.
MinistryNameRaises(minister) ==
  minister.ministry.kind = "dict" /\ ~minister.ministry.has_en

\* MinisterLookup._get_ministry_name(minister, language), when it returns
GetMinistryName(minister, language) ==
  IF minister.ministry.kind = "dict"
  THEN IF language = "sl" /\ minister.ministry.has_sl
       THEN minister.ministry.sl
       ELSE minister.ministry.en
  ELSE minister.ministry.text

\* MinisterLookup._format_minister(minister, language)
FormatMinister(minister, language) ==
  IF MinistryNameRaises(minister) THEN RaiseResult
  ELSE [kind |-> "found", name |-> minister.name,
        start_date |-> minister.start_date, end_date |-> minister.end_date,
        ministry |-> GetMinistryName(minister, language)]

\* MinisterLookup.find_minister: the loop over self.data["ministers"] from
\* position j on.  strptime of a missing or malformed start_date or end_date
\* raises.
RECURSIVE FindMinisterFrom(_, _, _, _, _)
FindMinisterFrom(j, ministers, ministry, query_date, language) ==
  IF j > Len(ministers) THEN NoneResult
  ELSE IF MinistryMatches(ministers[j], ministry)
       THEN IF ~Parseable(ministers[j].start_date) \/ ~Parseable(ministers[j].end_date)
            THEN RaiseResult
            ELSE IF /\ ministers[j].start_date <= query_date
                    /\ query_date <= ministers[j].end_date
                 THEN FormatMinister(ministers[j], language)
                 ELSE FindMinisterFrom(j + 1, ministers, ministry, query_date, language)
       ELSE FindMinisterFrom(j + 1, ministers, ministry, query_date, language)

\* find_minister(ministry, date, language)
FindMinister(ministers, ministry, query_date, language) ==
  IF ~Parseable(query_date) THEN RaiseResult
  ELSE FindMinisterFrom(1, ministers, ministry, query_date, language)

\* find_minister with _format_minister writing the language-specific
\* ministry name into the registry entry instead of into a new dict
MinistersAfterFindMinister_FormatInPlace(ministers, ministry, query_date, language) ==
  LET found == FindMinister(ministers, ministry, query_date, language)
      hits == { j \in 1..Len(ministers) :
                  /\ MinistryMatches(ministers[j], ministry)
                  /\ ministers[j].start_date <= query_date
                  /\ query_date <= ministers[j].end_date }
  IN IF found.kind # "found" THEN ministers
     ELSE LET first == CHOOSE j \in hits : \A i \in hits : j <= i
          IN [ministers EXCEPT
                ![first].ministry =
                  [kind |-> "plain", text |-> found.ministry, en |-> << >>,
                   has_en |-> FALSE, sl |-> << >>, has_sl |-> FALSE]]

\* self.data["ministers"] after find_minister(ministry, date, language): the
\* method and _format_minister only read the entries; the result is a new dict
MinistersAfterFindMinister(ministers, ministry, query_date, language) == ministers

(***************************************************************************)
(* Inputs of the namer                                                     *)
(***************************************************************************)
SeqsUpTo(S, n) == UNION { [1..k -> S] : k \in 0..n }

\* "ZDoh-2"
ZDoh2 == << "Z", "D", "o", "h", "-", "2" >>

\* target_law['KRATICA']: law_data.get('kratica', '') is '' for a record
\* without a short code
BaseKraticas == { << >>, ZDoh2 }

\* 'naziv' of an entry of posegiVPredpis:
\*   "Z (ZDoh-2A)"      a title with a parenthesized suffix
\*   "Zakon"            a title without one
\*   ""                 amendment.get('naziv', '') of an entry without a name
\*   "Z (a (b)"         an unclosed parenthesis before the suffix
\*   "Z (ZDoh-2B)\n"    a suffix followed by a line end
NazivA == << "Z", " ", "(", "Z", "D", "o", "h", "-", "2", "A", ")" >>
NazivPlain == << "Z", "a", "k", "o", "n" >>
NazivMissing == << >>
NazivNested == << "Z", " ", "(", "a", " ", "(", "b", ")" >>
NazivNewline == << "Z", " ", "(", "Z", "D", "o", "h", "-", "2", "B", ")", "\n" >>

Nazivs == { NazivA, NazivPlain, NazivMissing, NazivNested, NazivNewline }

\* datumDokumenta of the record being named
NamerDates == { NoDate, BadDate, 20070601 }

NamerIdle == [pc |-> "idle"]
LookupIdle == [pc |-> "idle"]
ManualIdle == [pc |-> "idle"]
BuilderIdle == [pc |-> "idle"]
ScriptIdle == [pc |-> "idle"]

\* the components that NamerInit, LookupInit and RunInit leave out
AuxIdle ==
  /\ manual = ManualIdle
  /\ builder = BuilderIdle
  /\ script = ScriptIdle

\* a tree without files
EmptyTree == [p \in {} |-> 0]

\* the variables of convert_law while no run is modelled
RunIdle ==
  /\ api = [pc |-> "idle"]
  /\ pc = "idle"
  /\ law_versions = << >>
  /\ law_timeline = << >>
  /\ pos = 0
  /\ processed_count = 0
  /\ skipped_count = 0
  /\ worktree = EmptyTree
  /\ index = EmptyTree
  /\ commits = << >>
  /\ repo = "none"
  /\ result = "none"

(***************************************************************************)
(* Specification of the namer: one call of _determine_amendment_name       *)
(***************************************************************************)
NamerInit ==
  /\ namer \in [ pc : {"call"},
                 npb_date : NamerDates,
                 version_number : 1..MaxVersionNumber,
                 amendments : SeqsUpTo(Nazivs, MaxAmendments),
                 base_kratica : BaseKraticas,
                 amendment_name : {"unset"} ]
  /\ lookup = LookupIdle
  /\ AuxIdle
  /\ RunIdle

DetermineName ==
  /\ namer.pc = "call"
  /\ namer' = [namer EXCEPT
        !.pc = "done",
        !.amendment_name =
            DetermineAmendmentName(namer.npb_date, namer.version_number,
                                   namer.amendments, namer.base_kratica)]
  /\ UNCHANGED <<lookup, auxVars, runVars>>

NamerNext == DetermineName

SpecNamer == NamerInit /\ [][NamerNext]_vars

(***************************************************************************)
(* Inputs of the lookup                                                    *)
(***************************************************************************)
MaxAppointments == 2

Finance == << "F", "i", "n", "a", "n", "c", "e" >>
Financ == << "F", "i", "n", "a", "n", "c" >>
MinistrstvoZaFinance ==
  << "M", "i", "n", "i", "s", "t", "r", "s", "t", "v", "o", " ",
     "z", "a", " ", "f", "i", "n", "a", "n", "c", "e" >>
MinistryOfFinance ==
  << "M", "i", "n", "i", "s", "t", "r", "y", " ", "o", "f", " ",
     "F", "i", "n", "a", "n", "c", "e" >>
MinistryOfHealth ==
  << "M", "i", "n", "i", "s", "t", "r", "y", " ", "o", "f", " ",
     "H", "e", "a", "l", "t", "h" >>
MinistrstvoZaZdravje ==
  << "M", "i", "n", "i", "s", "t", "r", "s", "t", "v", "o", " ",
     "z", "a", " ", "z", "d", "r", "a", "v", "j", "e" >>

PlainMinistry(t) ==
  [kind |-> "plain", text |-> t, en |-> << >>, has_en |-> FALSE,
   sl |-> << >>, has_sl |-> FALSE]
DictMinistry(has_en, en, has_sl, sl) ==
  [kind |-> "dict", text |-> << >>, en |-> en, has_en |-> has_en,
   sl |-> sl, has_sl |-> has_sl]

\* The ministry fields met in the datasets: plain names of the scraped data
\* (a full name, a short name, no name), bilingual names of the curated
\* data (full names, short names, a record without the 'en' name).
MinistryFields ==
  { PlainMinistry(MinistrstvoZaFinance),
    PlainMinistry(Finance),
    PlainMinistry(<< >>),
    DictMinistry(TRUE, MinistryOfFinance, TRUE, MinistrstvoZaFinance),
    DictMinistry(TRUE, Finance, TRUE, Financ),
    DictMinistry(TRUE, MinistryOfHealth, TRUE, MinistrstvoZaZdravje),
    DictMinistry(FALSE, << >>, TRUE, MinistrstvoZaZdravje) }

\* start_date and end_date of an appointment; NoDate when it carries none
Tenures ==
  { << 20090301, 20120310 >>, << 20081121, 20090228 >>, << NoDate, NoDate >> }

\* officeholder of the appointment at a position of the registry
Officeholders == << "Franc Krizanic", "Andrej Bajuk", "Janez Sustersic", "Uros Cufer" >>

Registries ==
  UNION { { [j \in 1..k |->
               [name |-> Officeholders[j], ministry |-> f[j][1],
                start_date |-> f[j][2][1], end_date |-> f[j][2][2]]] :
            f \in [1..k -> MinistryFields \X Tenures] } :
          k \in 0..MaxAppointments }

MinistryQueries == { Finance, MinistrstvoZaFinance, MinistryOfHealth, << >> }
QueryDates == { 20100515, 20090301, 20120310, 20081121 }
Languages == { "en", "sl" }

(***************************************************************************)
(* Specification of the lookup: one call of find_minister                  *)
(***************************************************************************)
\* data_file is ministers_combined.json, ministers what load_data read from
\* it into self.data
LookupInit ==
  /\ \E ministers \in Registries, ministry \in MinistryQueries,
        date \in QueryDates, language \in Languages :
       lookup = [pc |-> "call",
                 data_file |-> ministers,
                 ministers |-> ministers,
                 ministry |-> ministry,
                 date |-> date,
                 language |-> language,
                 result |-> NoneResult,
                 again |-> NoneResult]
  /\ namer = NamerIdle
  /\ AuxIdle
  /\ RunIdle

FindMinisterCall ==
  /\ lookup.pc = "call"
  /\ lookup' = [lookup EXCEPT
        !.pc = "done",
        !.result = FindMinister(lookup.ministers, lookup.ministry,
                                lookup.date, lookup.language),
        !.ministers = MinistersAfterFindMinister(lookup.ministers, lookup.ministry,
                                                 lookup.date, lookup.language)]
  /\ UNCHANGED <<namer, auxVars, runVars>>

\* a second call with the same arguments on the same MinisterLookup
FindMinisterAgain ==
  /\ lookup.pc = "done"
  /\ lookup' = [lookup EXCEPT
        !.pc = "twice",
        !.again = FindMinister(lookup.ministers, lookup.ministry,
                               lookup.date, lookup.language),
        !.ministers = MinistersAfterFindMinister(lookup.ministers, lookup.ministry,
                                                 lookup.date, lookup.language)]
  /\ UNCHANGED <<namer, auxVars, runVars>>

LookupNext ==
  \/ FindMinisterCall
  \/ FindMinisterAgain

SpecLookup == LookupInit /\ [][LookupNext]_vars

(***************************************************************************)
(* Inputs of a convert_law run                                             *)
(***************************************************************************)
MaxVersions == 3

\* datumDokumenta of an NPB record: missing, malformed, or a date
RunDates == { NoDate, BadDate, 19680101, 20061126, 20070601 }

\* naziv of an NPB record
NpbTitle == << "Z", "D", "o", "h" >>

\* the 'data' list of the /npb response, in the order the API returns it
NpbLists ==
  UNION { { [i \in 1..k |-> [id |-> 100 + i, datumDokumenta |-> d[i],
                             naziv |-> NpbTitle]] :
            d \in [1..k -> RunDates] } :
          k \in 0..MaxVersions }

\* posegiVPredpis of the base law
RunAmendments == { << >>, << NazivA, NazivPlain >> }

\* the API has no record for the law
LawNotFound ==
  [found |-> FALSE, has_identifiers |-> FALSE, kratica |-> << >>,
   responsible_ministry |-> << >>, adopting_body |-> << >>,
   amendments |-> << >>, npb_versions |-> << >>]

DrzavniZbor == << "D", "Z" >>

ApiStates ==
  { LawNotFound } \cup
  [ found : {TRUE},
    has_identifiers : {TRUE},
    kratica : BaseKraticas,
    responsible_ministry : { << >>, MinistrstvoZaFinance },
    adopting_body : { DrzavniZbor },
    amendments : RunAmendments,
    npb_versions : NpbLists ]

\* what get_law_content(law_id) yields: nothing, blank text, or the text the
\* API holds for that NPB id
Fetches == { "none", "blank", "text" }

\* what ministers_combined.json holds when find_minister loads it
RunRegistries ==
  { << >>,
    << [name |-> "Andrej Bajuk",
        ministry |-> DictMinistry(TRUE, MinistryOfFinance, TRUE, MinistrstvoZaFinance),
        start_date |-> 20041203, end_date |-> 20081121] >> }

GitOutcomes == { "ok", "write_fails", "commit_fails" }

(***************************************************************************)
(* GitManager and LawConverter                                             *)
(***************************************************************************)
HtmlSuffix == << ".", "h", "t", "m", "l" >>

\* output_dir / f"{metadata.law_code}.html"
OutputFile(metadata) == metadata.law_code \o HtmlSuffix

\* the markup the API holds for an NPB id
RawContent(law_id) == << "<", "p", ">" >> \o law_id \o << "<", "/", "p", ">" >>

\* process_law_content(raw_content): the prettified markup
ProcessLawContent(raw_content) == << "prettify", raw_content >>

\* the tree of HEAD
HeadTree == IF commits = << >> THEN EmptyTree ELSE commits[Len(commits)].tree

WriteText(tree, path, content) ==
  [q \in (DOMAIN tree) \cup {path} |-> IF q = path THEN content ELSE tree[q]]

(***************************************************************************)
(* Specification of a run: convert_law(law_id, output_dir)                 *)
(***************************************************************************)
RunInit ==
  /\ api \in ApiStates
  /\ pc = "validate_api"
  /\ law_versions = << >>
  /\ law_timeline = << >>
  /\ pos = 0
  /\ processed_count = 0
  /\ skipped_count = 0
  /\ worktree = EmptyTree
  /\ index = EmptyTree
  /\ commits = << >>
  /\ repo = "none"
  /\ result = "none"
  /\ namer = NamerIdle
  /\ lookup = LookupIdle
  /\ AuxIdle

\* Step 1 (lines 56-59): validate_api_access
ValidateApiAccess ==
  /\ pc = "validate_api"
  /\ \E ok \in BOOLEAN :
       IF ok THEN pc' = "load" /\ result' = result
       ELSE pc' = "done" /\ result' = "False"
  /\ UNCHANGED <<auxVars, namer, lookup, api, law_versions, law_timeline, pos,
                 processed_count, skipped_count, worktree, index, commits, repo>>

\* Step 2 without the returns of lines 64-75: a failed load leaves an empty
\* DataFrame and the run goes on to the repository
LoadLawVersions_FailureNotFatal ==
  /\ pc = "load"
  /\ LET npb_versions_data == GetHistoricalNpbVersions(api)
         raises ==
           \/ npb_versions_data = << >>
           \/ \E i \in 1..Len(npb_versions_data) :
                ToDatetimeRaises(npb_versions_data[i].D_SPREJEMA)
         affected_laws ==
           [i \in 1..Len(npb_versions_data) |->
              [npb_versions_data[i] EXCEPT
                 !.date_accepted = ToDatetime(npb_versions_data[i].D_SPREJEMA)]]
     IN IF raises
        THEN /\ pc' = "init_repo"
             /\ result' = result
             /\ law_versions' = law_versions
        ELSE /\ pc' = "init_repo"
             /\ result' = result
             /\ law_versions' \in
                  SortValuesResults(affected_laws,
                     [i \in 1..Len(affected_laws) |-> affected_laws[i].date_accepted])
  /\ UNCHANGED <<auxVars, namer, lookup, api, law_timeline, pos, processed_count,
                 skipped_count, worktree, index, commits, repo>>

\* Step 2 (lines 61-75): load_law_versions and validate_data_integrity
LoadLawVersions ==
  /\ pc = "load"
  /\ LET npb_versions_data == GetHistoricalNpbVersions(api)
         raises ==
           \/ npb_versions_data = << >>
           \/ \E i \in 1..Len(npb_versions_data) :
                ToDatetimeRaises(npb_versions_data[i].D_SPREJEMA)
         affected_laws ==
           [i \in 1..Len(npb_versions_data) |->
              [npb_versions_data[i] EXCEPT
                 !.date_accepted = ToDatetime(npb_versions_data[i].D_SPREJEMA)]]
     IN IF raises
        THEN /\ pc' = "done"
             /\ result' = "False"
             /\ law_versions' = law_versions
        ELSE /\ pc' = "init_repo"
             /\ result' = result
             /\ law_versions' \in
                  SortValuesResults(affected_laws,
                     [i \in 1..Len(affected_laws) |-> affected_laws[i].date_accepted])
  /\ UNCHANGED <<auxVars, namer, lookup, api, law_timeline, pos, processed_count,
                 skipped_count, worktree, index, commits, repo>>

\* Step 3 (lines 77-85): create_or_open_repo
CreateOrOpenRepo ==
  /\ pc = "init_repo"
  /\ \E ok \in BOOLEAN :
       IF ok THEN pc' = "timeline" /\ repo' = "open" /\ result' = result
       ELSE pc' = "done" /\ repo' = repo /\ result' = "False"
  /\ UNCHANGED <<auxVars, namer, lookup, api, law_versions, law_timeline, pos,
                 processed_count, skipped_count, worktree, index, commits>>

\* lines 91-95: get_law_timeline and the check for an empty timeline
BuildTimeline ==
  /\ pc = "timeline"
  /\ law_timeline' = GetLawTimeline(law_versions)
  /\ IF law_timeline' = << >>
     THEN pc' = "done" /\ result' = "False"
     ELSE pc' = "loop" /\ result' = result
  /\ UNCHANGED <<auxVars, namer, lookup, api, law_versions, pos, processed_count,
                 skipped_count, worktree, index, commits, repo>>

\* a failed entry that is not added to skipped_count
SkipEntry_NotCounted ==
  /\ processed_count' = processed_count
  /\ skipped_count' = skipped_count
  /\ UNCHANGED <<worktree, index, commits>>

\* _process_single_law returned False without reaching the repository
SkipEntry ==
  /\ processed_count' = processed_count
  /\ skipped_count' = skipped_count + 1
  /\ UNCHANGED <<worktree, index, commits>>

\* GitManager.commit_law_version(content, metadata, commit_message,
\* minister_info) and the count of its outcome.  git is what the file system
\* and git do: the write fails, the commit fails, or both work; a commit with
\* nothing staged against HEAD fails by itself.
CommitLawVersion(content, metadata, commit_message, minister_info, git) ==
  LET written == WriteText(worktree, OutputFile(metadata), content)
  IN IF repo # "open" \/ git = "write_fails"
     THEN SkipEntry
     ELSE /\ worktree' = written
          /\ index' = written
          /\ IF git = "ok" /\ written # HeadTree
             THEN /\ commits' = Append(commits,
                        [tree |-> written,
                         file |-> OutputFile(metadata),
                         message |-> commit_message,
                         author |-> minister_info.name,
                         date |-> metadata.law_date])
                  /\ processed_count' = processed_count + 1
                  /\ skipped_count' = skipped_count
             ELSE /\ commits' = commits
                  /\ processed_count' = processed_count
                  /\ skipped_count' = skipped_count + 1

\* one iteration of the loop of lines 99-104: _process_single_law(metadata)
\* and the count of its outcome
ProcessSingleLaw ==
  /\ pc = "loop"
  /\ pos < Len(law_timeline)
  /\ LET metadata == law_timeline[pos + 1]
         ministry == metadata.government_metadata.responsible_ministry
     IN \E fetch \in Fetches :
          IF fetch # "text" THEN SkipEntry
          ELSE \E process_ok \in BOOLEAN :
                 IF ~process_ok \/ ministry = << >> THEN SkipEntry
                 ELSE \E ministers \in RunRegistries :
                        LET minister_info ==
                              FindMinister(ministers, ministry, metadata.law_date, "en")
                        IN IF minister_info.kind # "found" THEN SkipEntry
                           ELSE \E git \in GitOutcomes :
                                  CommitLawVersion(
                                    ProcessLawContent(RawContent(metadata.law_id)),
                                    metadata, GenerateCommitMessage(metadata),
                                    minister_info, git)
  /\ pos' = pos + 1
  /\ UNCHANGED <<auxVars, namer, lookup, api, pc, law_versions, law_timeline, repo, result>>

\* the loop left at the first entry that failed
Summary_AtFirstSkip ==
  /\ pc = "loop"
  /\ pos = Len(law_timeline) \/ skipped_count > 0
  /\ pc' = "done"
  /\ repo' = "closed"
  /\ result' = IF processed_count > 0 THEN "True" ELSE "False"
  /\ UNCHANGED <<auxVars, namer, lookup, api, law_versions, law_timeline, pos,
                 processed_count, skipped_count, worktree, index, commits>>

\* Steps 5 and 6 (lines 106-112): summary, cleanup_repository, return
Summary ==
  /\ pc = "loop"
  /\ pos = Len(law_timeline)
  /\ pc' = "done"
  /\ repo' = "closed"
  /\ result' = IF processed_count > 0 THEN "True" ELSE "False"
  /\ UNCHANGED <<auxVars, namer, lookup, api, law_versions, law_timeline, pos,
                 processed_count, skipped_count, worktree, index, commits>>

RunNext ==
  \/ ValidateApiAccess
  \/ LoadLawVersions
  \/ CreateOrOpenRepo
  \/ BuildTimeline
  \/ ProcessSingleLaw
  \/ Summary

SpecRun == RunInit /\ [][RunNext]_vars

(***************************************************************************)
(* Claims about a run (checked under SpecRun)                              *)
(***************************************************************************)
\* C1 (as claimed): commit_law_version writes every version of the law to
\* the same path, so the output directory never holds two files and all
\* commits of a run are commits of one file.
C1_SingleOutputFile ==
  /\ \A p, q \in DOMAIN worktree : p = q
  /\ \A i, j \in 1..Len(commits) : commits[i].file = commits[j].file

\* C2: commits are made in ascending adoption-date order: of two commits of
\* a run the earlier one never carries a later date (the entry's law_date).
C2_CommitsAscending ==
  \A i, j \in 1..Len(commits) :
    i < j => commits[i].date <= commits[j].date

\* C2 witness: a finished run over three records that the API returned out of
\* date order, with two commits of different dates and one skipped entry.
C2_Witness ==
  /\ pc = "done"
  /\ Len(api.npb_versions) = 3
  /\ api.npb_versions[1].datumDokumenta > api.npb_versions[2].datumDokumenta
  /\ Parseable(api.npb_versions[2].datumDokumenta)
  /\ Len(law_timeline) = 3
  /\ skipped_count = 1
  /\ Len(commits) = 2
  /\ commits[1].date < commits[2].date

\* C3 (as claimed): the first chronological version, the one record whose
\* datumDokumenta is earlier than every other dated record's, has sequence
\* number 1 and is named by the base law's short code.
C3_FirstChronologicalGetsBaseCode ==
  \A i \in 1..Len(law_versions) :
    ( /\ Parseable(law_versions[i].raw.datumDokumenta)
      /\ \A j \in 1..Len(law_versions) :
           (j # i /\ Parseable(law_versions[j].raw.datumDokumenta))
           => law_versions[i].raw.datumDokumenta
                < law_versions[j].raw.datumDokumenta )
    => /\ law_versions[i].version_number = 1
       /\ law_versions[i].amendment_name = api.kratica

(***************************************************************************)
(* Claims about the namer (checked under SpecNamer)                        *)
(***************************************************************************)
NamerDone == namer.pc = "done"

\* The spec's reference formula for the fallback suffix of sequence number n:
\* k = n - 2; one letter 'A'+k when k < 26, else 'A'+((k-26) div 26) then
\* 'A'+((k-26) mod 26).
RefSuffix(n) ==
  LET k == n - 2 IN
  IF k < 26 THEN << AsciiFrom65[k + 1] >>
  ELSE << AsciiFrom65[((k - 26) \div 26) + 1], AsciiFrom65[((k - 26) % 26) + 1] >>

\* The amendment event aligned with version n sits at zero-based index n - 2,
\* which is position n - 1 of the list.
HasAlignedEvent(n, amendments) == n - 1 \in 1..Len(amendments)

AlignedCodeParses(n, amendments) ==
  HasAlignedEvent(n, amendments) /\ KraticaMatches(amendments[n - 1])

\* C4 (as claimed): every version n > 1 whose aligned amendment event (index
\* n - 2) exists and carries a parenthesized suffix is named by the code of
\* that suffix, also when n - 2 is the last index of the list.  Stated for
\* records with a parseable date, where no other rule of the namer applies.
C4_AlignedEventNamesVersion ==
  ( /\ NamerDone
    /\ namer.version_number > 1
    /\ Parseable(namer.npb_date)
    /\ AlignedCodeParses(namer.version_number, namer.amendments) )
  => namer.amendment_name = KraticaGroup(namer.amendments[namer.version_number - 1])

\* C5 (as claimed): every version n > 1 without a parseable aligned event code
\* is named baseCode + fallback letters, and every name for n > 1 is either
\* an event-derived code or baseCode + letters.
C5_OnlyEventOrLetters ==
  ( NamerDone /\ namer.version_number > 1 )
  => /\ ~AlignedCodeParses(namer.version_number, namer.amendments)
          => namer.amendment_name =
               namer.base_kratica \o RefSuffix(namer.version_number)
     /\ \/ namer.amendment_name =
             namer.base_kratica \o RefSuffix(namer.version_number)
        \/ \E j \in 1..Len(namer.amendments) :
             /\ KraticaMatches(namer.amendments[j])
             /\ namer.amendment_name = KraticaGroup(namer.amendments[j])

\* C5 (amended): for n > 1, a record whose datumDokumenta is missing or
\* unparseable is named baseCode + "-v" + n; a record with a parseable date
\* and no parseable aligned event code is named baseCode + fallback letters;
\* any other name is the code of the aligned event or baseCode + letters.
C5_NameForms ==
  ( NamerDone /\ namer.version_number > 1 )
  => /\ ~Parseable(namer.npb_date)
          => namer.amendment_name =
               namer.base_kratica \o << "-", "v" >> \o Str(namer.version_number)
     /\ ( Parseable(namer.npb_date)
          /\ ~AlignedCodeParses(namer.version_number, namer.amendments) )
          => namer.amendment_name =
               namer.base_kratica \o RefSuffix(namer.version_number)
     /\ ( Parseable(namer.npb_date)
          /\ AlignedCodeParses(namer.version_number, namer.amendments) )
          => \/ namer.amendment_name =
                  KraticaGroup(namer.amendments[namer.version_number - 1])
             \/ namer.amendment_name =
                  namer.base_kratica \o RefSuffix(namer.version_number)

\* C5 witness: version 2 has an aligned event without a parenthesized suffix
\* and is named by the fallback letter.
C5_Witness ==
  /\ NamerDone
  /\ namer.version_number = 2
  /\ Parseable(namer.npb_date)
  /\ Len(namer.amendments) >= 1
  /\ namer.amendments[1] = NazivPlain
  /\ namer.base_kratica = ZDoh2
  /\ namer.amendment_name = ZDoh2 \o << "A" >>

\* The fallback is the only rule in play: parseable date, no event carries
\* a parenthesized suffix.
NoEventCodes ==
  /\ Parseable(namer.npb_date)
  /\ \A j \in 1..Len(namer.amendments) : ~KraticaMatches(namer.amendments[j])

\* C6 (as claimed): the fallback suffix is "A" for 2, "B" for 3, "AA" for 27
\* and "AB" for 28.
C6_LetterTableClaimed ==
  ( NamerDone /\ NoEventCodes )
  => /\ namer.version_number = 2
          => namer.amendment_name = namer.base_kratica \o << "A" >>
     /\ namer.version_number = 3
          => namer.amendment_name = namer.base_kratica \o << "B" >>
     /\ namer.version_number = 27
          => namer.amendment_name = namer.base_kratica \o << "A", "A" >>
     /\ namer.version_number = 28
          => namer.amendment_name = namer.base_kratica \o << "A", "B" >>

\* C6 (amended): the fallback suffix is "A" for 2, "B" for 3, "Z" for 27,
\* "AA" for 28 and "AB" for 29.
C6_LetterTable ==
  ( NamerDone /\ NoEventCodes )
  => /\ namer.version_number = 2
          => namer.amendment_name = namer.base_kratica \o << "A" >>
     /\ namer.version_number = 3
          => namer.amendment_name = namer.base_kratica \o << "B" >>
     /\ namer.version_number = 27
          => namer.amendment_name = namer.base_kratica \o << "Z" >>
     /\ namer.version_number = 28
          => namer.amendment_name = namer.base_kratica \o << "A", "A" >>
     /\ namer.version_number = 29
          => namer.amendment_name = namer.base_kratica \o << "A", "B" >>

\* C6 witness: version 28 named by the first two-letter suffix.
C6_Witness ==
  /\ NamerDone
  /\ NoEventCodes
  /\ namer.version_number = 28
  /\ namer.amendment_name = namer.base_kratica \o << "A", "A" >>

\* C7: whenever the fallback names a version n >= 2, the suffix is the
\* reference formula's; "ZDoh-2" with no event codes yields "ZDoh-2",
\* "ZDoh-2A", "ZDoh-2B" for versions 1, 2, 3.
C7_FallbackIsReferenceFormula ==
  ( NamerDone /\ NoEventCodes )
  => /\ namer.version_number >= 2
          => namer.amendment_name =
               namer.base_kratica \o RefSuffix(namer.version_number)
     /\ namer.base_kratica = ZDoh2
          => /\ namer.version_number = 1 => namer.amendment_name = ZDoh2
             /\ namer.version_number = 2
                  => namer.amendment_name =
                       << "Z", "D", "o", "h", "-", "2", "A" >>
             /\ namer.version_number = 3
                  => namer.amendment_name =
                       << "Z", "D", "o", "h", "-", "2", "B" >>

\* C7 witness: the third version of "ZDoh-2" with an event list that holds
\* no code.
C7_Witness ==
  /\ NamerDone
  /\ NoEventCodes
  /\ namer.base_kratica = ZDoh2
  /\ namer.version_number = 3
  /\ Len(namer.amendments) = 2
  /\ namer.amendment_name = << "Z", "D", "o", "h", "-", "2", "B" >>

\* C8 (as claimed): every name the namer returns is non-empty.
C8_NameNonEmpty ==
  NamerDone => namer.amendment_name # << >>

(***************************************************************************)
(* Claims about the lookup (checked under SpecLookup)                      *)
(***************************************************************************)
LookupDone == lookup.pc = "done"

\* The names an appointment's ministry field carries
MinistryNamesOf(m) ==
  IF m.ministry.kind = "dict"
  THEN { GetOrEmpty(m.ministry.has_en, m.ministry.en),
         GetOrEmpty(m.ministry.has_sl, m.ministry.sl) }
  ELSE { m.ministry.text }

\* a ministry name of the appointment contains the query, ignoring case
NameContainsQuery(m, q) ==
  \E n \in MinistryNamesOf(m) : Contains(Lower(q), Lower(n))

\* the query contains a ministry name of the appointment, ignoring case
QueryContainsName(m, q) ==
  \E n \in MinistryNamesOf(m) : Contains(Lower(n), Lower(q))

HasTenure(m) == Parseable(m.start_date) /\ Parseable(m.end_date)

\* the inclusive tenure of the appointment contains the date
InTenure(m, d) == HasTenure(m) /\ m.start_date <= d /\ d <= m.end_date

\* what the caller sees when appointment m is returned
Returned(m, language) ==
  [kind |-> "found", name |-> m.name, start_date |-> m.start_date,
   end_date |-> m.end_date,
   ministry |-> IF m.ministry.kind = "plain" THEN m.ministry.text
                ELSE IF language = "sl" /\ m.ministry.has_sl
                     THEN m.ministry.sl ELSE m.ministry.en]

\* the registry is well-formed: every appointment has both dates and every
\* bilingual ministry has both names
WellFormed(ministers) ==
  \A j \in 1..Len(ministers) :
    /\ HasTenure(ministers[j])
    /\ ministers[j].ministry.kind = "dict"
         => ministers[j].ministry.has_en /\ ministers[j].ministry.has_sl

StopsAt(m, q, d) ==
  /\ \/ NameContainsQuery(m, q)
     \/ m.ministry.kind = "dict" /\ QueryContainsName(m, q)
  /\ ~HasTenure(m) \/ InTenure(m, d)

RelatedEitherDirection(m, q) ==
  /\ q # << >>
  /\ \E n \in MinistryNamesOf(m) :
       /\ n # << >>
       /\ Contains(Lower(q), Lower(n)) \/ Contains(Lower(n), Lower(q))

\* C10 (as claimed): matching is a case-insensitive substring match in
\* either direction for plain and bilingual fields alike, so a call that
\* returns None leaves no appointment whose tenure contains the date and
\* whose (non-empty) name contains the query or is contained in it.
C10_MatchesEitherDirection ==
  ( LookupDone /\ lookup.result.kind = "none" )
  => \A j \in 1..Len(lookup.ministers) :
       ~( /\ InTenure(lookup.ministers[j], lookup.date)
          /\ RelatedEitherDirection(lookup.ministers[j], lookup.ministry) )

(***************************************************************************)
(* ManualMinisterLookup over the government terms, and the flattening of   *)
(* the terms into the registry that find_minister reads                    *)
(*                                                                         *)
(* A government term is [period_start, period_end, ministers]; an entry of *)
(* ministers is [name, ministry_code, ministry, start_date, end_date].     *)
(***************************************************************************)
\* ManualMinisterLookup._parse_date for a 'YYYY-MM-DD' string: the datetime,
\* or None (NoDate) for an empty or unparseable string
ManualParseDate(date_str) == IF Parseable(date_str) THEN date_str ELSE NoDate

\* get_government_by_date returning None; a found term is its list position
NoGovernment == 0

\* get_government_by_date with the comparison start_date < target_date < end_date
RECURSIVE GovernmentFrom_Exclusive(_, _, _)
GovernmentFrom_Exclusive(j, governments, target_date) ==
  IF j > Len(governments) THEN NoGovernment
  ELSE LET start_date == ManualParseDate(governments[j].period_start)
           end_date == ManualParseDate(governments[j].period_end)
       IN IF /\ start_date # NoDate
             /\ end_date # NoDate
             /\ start_date < target_date
             /\ target_date < end_date
          THEN j
          ELSE GovernmentFrom_Exclusive(j + 1, governments, target_date)

\* get_government_by_date that keeps scanning and returns the last term found
RECURSIVE GovernmentFrom_LastMatch(_, _, _)
GovernmentFrom_LastMatch(j, governments, target_date) ==
  IF j > Len(governments) THEN NoGovernment
  ELSE LET start_date == ManualParseDate(governments[j].period_start)
           end_date == ManualParseDate(governments[j].period_end)
           later == GovernmentFrom_LastMatch(j + 1, governments, target_date)
       IN IF later # NoGovernment THEN later
          ELSE IF /\ start_date # NoDate
                  /\ end_date # NoDate
                  /\ start_date <= target_date
                  /\ target_date <= end_date
               THEN j
               ELSE NoGovernment

\* get_government_by_date: the loop over self.governments from position j on
RECURSIVE GovernmentFrom(_, _, _)
GovernmentFrom(j, governments, target_date) ==
  IF j > Len(governments) THEN NoGovernment
  ELSE LET start_date == ManualParseDate(governments[j].period_start)
           end_date == ManualParseDate(governments[j].period_end)
       IN IF /\ start_date # NoDate
             /\ end_date # NoDate
             /\ start_date <= target_date
             /\ target_date <= end_date
          THEN j
          ELSE GovernmentFrom(j + 1, governments, target_date)

\* ManualMinisterLookup.get_government_by_date(law_date)
GetGovernmentByDate(governments, law_date) ==
  LET target_date == ManualParseDate(law_date)
  IN IF target_date = NoDate THEN NoGovernment
     ELSE GovernmentFrom(1, governments, target_date)

\* get_minister_by_ministry_code_and_date returning None
ManualNone == [kind |-> "none", name |-> ""]

\* get_minister_by_ministry_code_and_date: the loop over the ministers of the
\* term from position j on
RECURSIVE MinisterByCodeFrom(_, _, _, _)
MinisterByCodeFrom(j, ministers, ministry_code, target_date) ==
  IF j > Len(ministers) THEN ManualNone
  ELSE LET minister_start == ManualParseDate(ministers[j].start_date)
           minister_end == ManualParseDate(ministers[j].end_date)
       IN IF /\ ministers[j].ministry_code = ministry_code
             /\ minister_start # NoDate
             /\ minister_end # NoDate
             /\ minister_start <= target_date
             /\ target_date <= minister_end
          THEN [kind |-> "found", name |-> ministers[j].name]
          ELSE MinisterByCodeFrom(j + 1, ministers, ministry_code, target_date)

\* get_minister_by_ministry_code_and_date that goes on to the later terms
\* holding the date when the first one has no minister in office
GetMinisterByMinistryCodeAndDate_AnyTerm(governments, ministry_code, law_date) ==
  LET target_date == ManualParseDate(law_date)
      answer(k) == MinisterByCodeFrom(1, governments[k].ministers,
                                      ministry_code, target_date)
      terms == { k \in 1..Len(governments) :
                   /\ ManualParseDate(governments[k].period_start) # NoDate
                   /\ ManualParseDate(governments[k].period_end) # NoDate
                   /\ ManualParseDate(governments[k].period_start) <= target_date
                   /\ target_date <= ManualParseDate(governments[k].period_end)
                   /\ answer(k).kind = "found" }
  IN IF target_date = NoDate \/ terms = {} THEN ManualNone
     ELSE answer(CHOOSE k \in terms : \A h \in terms : k <= h)

\* ManualMinisterLookup.get_minister_by_ministry_code_and_date
GetMinisterByMinistryCodeAndDate(governments, ministry_code, law_date) ==
  LET government == GetGovernmentByDate(governments, law_date)
      target_date == ManualParseDate(law_date)
  IN IF government = NoGovernment THEN ManualNone
     ELSE IF target_date = NoDate THEN ManualNone
     ELSE MinisterByCodeFrom(1, governments[government].ministers,
                             ministry_code, target_date)

\* combine_minister_files: data["ministers"], every minister of every
\* government in file order, with the government's number and period added
RECURSIVE CombineMinisterFiles(_, _)
CombineMinisterFiles(governments, number) ==
  IF governments = << >> THEN << >>
  ELSE LET government == Head(governments)
       IN [j \in 1..Len(government.ministers) |->
             [name |-> government.ministers[j].name,
              ministry_code |-> government.ministers[j].ministry_code,
              ministry |-> government.ministers[j].ministry,
              start_date |-> government.ministers[j].start_date,
              end_date |-> government.ministers[j].end_date,
              government_number |-> number,
              government_period |->
                << government.period_start, government.period_end >>]]
          \o CombineMinisterFiles(Tail(governments), number + 1)

(***************************************************************************)
(* Inputs of the manual lookup                                             *)
(***************************************************************************)
MaxGovernments == 2

\* period of a term: two overlapping periods, and a term without a period
Periods ==
  { << 20081121, 20120210 >>, << 20120101, 20130320 >>, << NoDate, NoDate >> }

FinanceMinistry == DictMinistry(TRUE, MinistryOfFinance, TRUE, MinistrstvoZaFinance)
HealthMinistry == DictMinistry(TRUE, MinistryOfHealth, TRUE, MinistrstvoZaZdravje)

\* ministers of a term: a tenure equal to the first period, a tenure that
\* runs past the end of both periods, a minister without dates, and a
\* minister of another ministry
Krizanic ==
  [name |-> "Franc Krizanic", ministry_code |-> "MF", ministry |-> FinanceMinistry,
   start_date |-> 20081121, end_date |-> 20120210]
Sustersic ==
  [name |-> "Janez Sustersic", ministry_code |-> "MF", ministry |-> FinanceMinistry,
   start_date |-> 20120210, end_date |-> 20140918]
Cufer ==
  [name |-> "Uros Cufer", ministry_code |-> "MF", ministry |-> FinanceMinistry,
   start_date |-> NoDate, end_date |-> NoDate]
Miklavcic ==
  [name |-> "Borut Miklavcic", ministry_code |-> "MZ", ministry |-> HealthMinistry,
   start_date |-> 20081121, end_date |-> 20120210]

Cabinets ==
  { << >>, << Krizanic >>, << Sustersic >>, << Cufer >>,
    << Miklavcic, Krizanic >>, << Cufer, Krizanic >> }

GovernmentTerms ==
  { [period_start |-> p[1], period_end |-> p[2], ministers |-> c] :
      p \in Periods, c \in Cabinets }

\* the query: a ministry code with the ministry name a caller of
\* find_minister would pass for it
ManualQueries == { << "MF", Finance >>, << "MZ", MinistryOfHealth >> }

\* law_date: the bounds of the first period, a day inside both periods, a
\* day inside no period, and a string that is no date
ManualDates == { 20081121, 20120210, 20120105, 20140101, BadDate }

(***************************************************************************)
(* Specification of the manual lookup: get_government_by_date,             *)
(* get_minister_by_ministry_code_and_date and find_minister over the       *)
(* flattened terms, for one dataset and one query                          *)
(***************************************************************************)
ManualInit ==
  /\ \E governments \in SeqsUpTo(GovernmentTerms, MaxGovernments),
        q \in ManualQueries, law_date \in ManualDates :
       manual = [pc |-> "term",
                 governments |-> governments,
                 ministry_code |-> q[1],
                 ministry |-> q[2],
                 law_date |-> law_date,
                 government |-> NoGovernment,
                 minister |-> ManualNone,
                 flat |-> NoneResult]
  /\ namer = NamerIdle
  /\ lookup = LookupIdle
  /\ builder = BuilderIdle
  /\ script = ScriptIdle
  /\ RunIdle

GetGovernmentByDateCall ==
  /\ manual.pc = "term"
  /\ manual' = [manual EXCEPT
        !.pc = "code",
        !.government = GetGovernmentByDate(manual.governments, manual.law_date)]
  /\ UNCHANGED <<namer, lookup, builder, script, runVars>>

GetMinisterByCodeCall ==
  /\ manual.pc = "code"
  /\ manual' = [manual EXCEPT
        !.pc = "flat",
        !.minister = GetMinisterByMinistryCodeAndDate(
                       manual.governments, manual.ministry_code, manual.law_date)]
  /\ UNCHANGED <<namer, lookup, builder, script, runVars>>

\* find_minister(ministry, date) on the registry that combine_minister_files
\* builds from the terms
FindMinisterFlattened ==
  /\ manual.pc = "flat"
  /\ manual' = [manual EXCEPT
        !.pc = "done",
        !.flat = FindMinister(CombineMinisterFiles(manual.governments, 1),
                              manual.ministry, manual.law_date, "en")]
  /\ UNCHANGED <<namer, lookup, builder, script, runVars>>

ManualNext ==
  \/ GetGovernmentByDateCall
  \/ GetMinisterByCodeCall
  \/ FindMinisterFlattened

SpecManual == ManualInit /\ [][ManualNext]_vars

(***************************************************************************)
(* Claims about the manual lookup (SpecManual)                             *)
(***************************************************************************)
ManualDone == manual.pc = "done"

\* the registry find_minister reads in FindMinisterFlattened
Flattened == CombineMinisterFiles(manual.governments, 1)

\* d lies in the closed interval from s to e, both of them dates
InClosedInterval(s, e, d) ==
  Parseable(s) /\ Parseable(e) /\ Parseable(d) /\ s <= d /\ d <= e

TermContains(k, d) ==
  InClosedInterval(manual.governments[k].period_start,
                   manual.governments[k].period_end, d)

\* d is the first or the last day of a non-empty interval
OnBoundary(s, e, d) ==
  Parseable(s) /\ Parseable(e) /\ s <= e /\ (d = s \/ d = e)

\* C11: containment is inclusive on both ends.  A law_date equal to the
\* start or the end of a term's period finds that term (or an earlier term
\* that holds the date too); a law_date equal to the start or the end of the
\* tenure of a minister of the found term with the queried code finds that
\* minister (or an earlier one in office that day); and find_minister on the
\* flattened registry does not answer None when the date is the first or
\* the last day of a matching appointment.
C11_BoundsInclusive ==
  ManualDone =>
    /\ \A k \in 1..Len(manual.governments) :
         OnBoundary(manual.governments[k].period_start,
                    manual.governments[k].period_end, manual.law_date)
         => /\ manual.government \in 1..k
            /\ TermContains(manual.government, manual.law_date)
    /\ manual.government # NoGovernment =>
         LET ministers == manual.governments[manual.government].ministers
         IN \A j \in 1..Len(ministers) :
              ( /\ ministers[j].ministry_code = manual.ministry_code
                /\ OnBoundary(ministers[j].start_date, ministers[j].end_date,
                              manual.law_date) )
              => /\ manual.minister.kind = "found"
                 /\ \E i \in 1..j :
                      /\ manual.minister.name = ministers[i].name
                      /\ InClosedInterval(ministers[i].start_date,
                                          ministers[i].end_date, manual.law_date)
    /\ \A j \in 1..Len(Flattened) :
         ( /\ MinistryMatches(Flattened[j], manual.ministry)
           /\ OnBoundary(Flattened[j].start_date, Flattened[j].end_date,
                         manual.law_date) )
         => /\ manual.flat.kind # "none"
            /\ manual.flat.kind = "found" =>
                 \E i \in 1..j :
                   /\ manual.flat.name = Flattened[i].name
                   /\ InClosedInterval(Flattened[i].start_date,
                                       Flattened[i].end_date, manual.law_date)

\* C11 witness: the law_date is the last day of the first term and of its
\* finance minister's tenure; the term and the minister are found by both
\* resolvers.
C11_Witness ==
  /\ ManualDone
  /\ Len(manual.governments) = 1
  /\ manual.governments[1].period_end = 20120210
  /\ manual.governments[1].ministers = << Krizanic >>
  /\ manual.law_date = 20120210
  /\ manual.ministry_code = "MF"
  /\ manual.government = 1
  /\ manual.minister = [kind |-> "found", name |-> "Franc Krizanic"]
  /\ manual.flat.kind = "found"
  /\ manual.flat.name = "Franc Krizanic"

\* C12: get_government_by_date returns the first term in stored order whose
\* closed period holds the date, also when a later term holds it too, and
\* None when no term does.
C12_FirstContainingTerm ==
  manual.pc # "term" =>
    LET holding == { k \in 1..Len(manual.governments) :
                       TermContains(k, manual.law_date) }
    IN IF holding = {}
       THEN manual.government = NoGovernment
       ELSE /\ manual.government \in holding
            /\ \A k \in holding : manual.government <= k

\* C12 witness: two different terms hold the date and the first is returned.
C12_Witness ==
  /\ manual.pc # "term"
  /\ Len(manual.governments) = 2
  /\ manual.governments[1] # manual.governments[2]
  /\ TermContains(1, manual.law_date)
  /\ TermContains(2, manual.law_date)
  /\ manual.government = 1

\* every term has a period and every minister a tenure
DatasetDated ==
  \A k \in 1..Len(manual.governments) :
    /\ Parseable(manual.governments[k].period_start)
    /\ Parseable(manual.governments[k].period_end)
    /\ \A j \in 1..Len(manual.governments[k].ministers) :
         /\ Parseable(manual.governments[k].ministers[j].start_date)
         /\ Parseable(manual.governments[k].ministers[j].end_date)

\* C13 (as claimed): for a date that lies in no term, both resolvers answer
\* None, also when a tenure runs past the period of its term.
C13_NoTermMeansNotFound ==
  ( /\ ManualDone
    /\ DatasetDated
    /\ Parseable(manual.law_date)
    /\ \A k \in 1..Len(manual.governments) : ~TermContains(k, manual.law_date) )
  => /\ manual.minister = ManualNone
     /\ manual.flat = NoneResult

\* C14 (as claimed): when the first minister of the found term with the
\* queried code has no dates of their own, that minister is returned.
C14_UndatedAppointmentAccepted ==
  ( /\ ManualDone
    /\ manual.government # NoGovernment )
  => LET ministers == manual.governments[manual.government].ministers
     IN \A j \in 1..Len(ministers) :
          ( /\ ministers[j].ministry_code = manual.ministry_code
            /\ ministers[j].start_date = NoDate
            /\ ministers[j].end_date = NoDate
            /\ \A i \in 1..(j - 1) :
                 ministers[i].ministry_code # manual.ministry_code )
          => manual.minister = [kind |-> "found", name |-> ministers[j].name]

MaxRows == 3

\* rows of a DataFrame handed to get_law_timeline.  A sound row, in three
\* dates, and rows with one defect each: a missing or an empty ID, KRATICA or
\* NASLOV, a missing date, a date cell holding a string, no responsible
\* ministry.
SoundRow(date) ==
  [ID |-> << "1" >>, KRATICA |-> ZDoh2, NASLOV |-> NpbTitle,
   date_accepted |-> date, amendment_name |-> ZDoh2,
   government_metadata |-> GovernmentMetadata(MinistrstvoZaFinance, DrzavniZbor)]

RowTemplates ==
  { SoundRow(19991231), SoundRow(20061126), SoundRow(20070601),
    [SoundRow(20061126) EXCEPT !.ID = NaN],
    [SoundRow(20061126) EXCEPT !.ID = << >>],
    [SoundRow(20061126) EXCEPT !.KRATICA = NaN],
    [SoundRow(20061126) EXCEPT !.KRATICA = << >>, !.amendment_name = << >>],
    [SoundRow(20061126) EXCEPT !.NASLOV = NaN],
    [SoundRow(20061126) EXCEPT !.NASLOV = << >>],
    [SoundRow(20061126) EXCEPT !.date_accepted = NaT],
    [SoundRow(20061126) EXCEPT !.date_accepted = BadDate],
    [SoundRow(20061126) EXCEPT
       !.government_metadata = GovernmentMetadata(<< >>, DrzavniZbor)] }

\* the row at position i of the DataFrame: an ID that is present and not
\* empty is the text of 100 + i
RowAt(template, i) ==
  IF template.ID = << "1" >> THEN [template EXCEPT !.ID = Str(100 + i)]
  ELSE template

DataFrames ==
  { [i \in 1..Len(f) |-> RowAt(f[i], i)] : f \in SeqsUpTo(RowTemplates, MaxRows) }

(***************************************************************************)
(* Specification of the timeline builder: one call of get_law_timeline     *)
(***************************************************************************)
BuilderInit ==
  /\ \E rows \in DataFrames :
       builder = [pc |-> "call", law_versions |-> rows, timeline |-> << >>]
  /\ namer = NamerIdle
  /\ lookup = LookupIdle
  /\ manual = ManualIdle
  /\ script = ScriptIdle
  /\ RunIdle

GetLawTimelineCall ==
  /\ builder.pc = "call"
  /\ builder' = [builder EXCEPT
        !.pc = "done",
        !.timeline = GetLawTimeline(builder.law_versions)]
  /\ UNCHANGED <<namer, lookup, manual, script, runVars>>

BuilderNext == GetLawTimelineCall

SpecBuilder == BuilderInit /\ [][BuilderNext]_vars

(***************************************************************************)
(* Claims about the timeline builder (SpecBuilder)                         *)
(***************************************************************************)
BuilderDone == builder.pc = "done"

\* positions of the DataFrame whose row is in the timeline
Included ==
  { i \in 1..Len(builder.law_versions) :
      \E k \in 1..Len(builder.timeline) :
        builder.timeline[k] = ExtractLawMetadata(builder.law_versions[i]) }

\* C16: the timeline is ascending by law_date for every order of the rows,
\* and strictly ascending when the dates of the rows in it are distinct.
C16_TimelineAscending ==
  BuilderDone =>
    LET timeline == builder.timeline
    IN /\ \A a, b \in 1..Len(timeline) :
            a < b => timeline[a].law_date <= timeline[b].law_date
       /\ ( \A i, j \in Included :
              i # j => builder.law_versions[i].date_accepted
                         # builder.law_versions[j].date_accepted )
          => \A a, b \in 1..Len(timeline) :
               a < b => timeline[a].law_date < timeline[b].law_date

\* C16 witness: three sound rows handed over latest first come out earliest
\* first.
C16_Witness ==
  /\ BuilderDone
  /\ Len(builder.law_versions) = 3
  /\ builder.law_versions[1].date_accepted = 20070601
  /\ builder.law_versions[2].date_accepted = 20061126
  /\ builder.law_versions[3].date_accepted = 19991231
  /\ \A i \in 1..3 : builder.law_versions[i].ID = Str(100 + i)
  /\ builder.law_versions[2].KRATICA = ZDoh2
  /\ builder.law_versions[2].NASLOV = NpbTitle
  /\ Len(builder.timeline) = 3
  /\ builder.timeline[1].law_id = Str(103)
  /\ builder.timeline[3].law_id = Str(101)

\* a cell that holds a text with at least one character
NonEmptyText(value) == value # NaN /\ value # << >>

\* C17 (as claimed): a row is in the timeline exactly when its id, short
\* code and title are non-empty, its adoption date is a date and its
\* responsible ministry is non-empty.
C17_IncludedIffComplete ==
  BuilderDone =>
    \A i \in 1..Len(builder.law_versions) :
      (i \in Included) <=>
        LET law_row == builder.law_versions[i]
        IN /\ NonEmptyText(law_row.ID)
           /\ NonEmptyText(law_row.KRATICA)
           /\ NonEmptyText(law_row.NASLOV)
           /\ Parseable(law_row.date_accepted)
           /\ law_row.government_metadata.responsible_ministry # << >>

(***************************************************************************)
(* Claims about the per-item loop of convert_law (SpecRun)                 *)
(***************************************************************************)
\* C18: processed_count + skipped_count is the number of timeline entries
\* taken so far, at the end of the loop it is the length of the timeline,
\* and a step that takes an entry adds one to exactly one of the counters;
\* no other step changes them.
C18_SkipAccounting ==
  /\ [](/\ processed_count + skipped_count = pos
        /\ pos <= Len(law_timeline)
        /\ (pc = "done" /\ law_timeline # << >>)
             => processed_count + skipped_count = Len(law_timeline))
  /\ [][ /\ pos' = pos + 1 =>
              \/ processed_count' = processed_count + 1
                   /\ skipped_count' = skipped_count
              \/ processed_count' = processed_count
                   /\ skipped_count' = skipped_count + 1
         /\ pos' = pos =>
              processed_count' = processed_count /\ skipped_count' = skipped_count
       ]_vars

\* C18 witness: two entries of three taken, one committed and one skipped.
C18_Witness ==
  /\ pc = "loop"
  /\ Len(law_timeline) = 3
  /\ pos = 2
  /\ processed_count = 1
  /\ skipped_count = 1

\* C19: a failed entry is a skip of that entry only.  The step that counts
\* it leaves the loop running, moves on by one entry and adds no commit; as
\* long as entries remain the next one can be taken; and a run that built a
\* timeline ends only after every entry was taken.
C19_FailureIsSkip ==
  /\ []( /\ (pc = "done" /\ law_timeline # << >>) => pos = Len(law_timeline)
         /\ (pc = "loop" /\ pos < Len(law_timeline)) => ENABLED ProcessSingleLaw )
  /\ [][ skipped_count' = skipped_count + 1 =>
           /\ pc = "loop"
           /\ pc' = "loop"
           /\ pos' = pos + 1
           /\ commits' = commits
           /\ result' = result
           /\ law_timeline' = law_timeline
       ]_vars

\* C19 witness: the first two entries of three failed and the third was
\* still taken and committed.
C19_Witness ==
  /\ pc = "done"
  /\ Len(law_timeline) = 3
  /\ skipped_count = 2
  /\ processed_count = 1
  /\ Len(commits) = 1
  /\ commits[1].message = GenerateCommitMessage(law_timeline[3])
  /\ commits[1].message # GenerateCommitMessage(law_timeline[1])
  /\ commits[1].message # GenerateCommitMessage(law_timeline[2])

(***************************************************************************)
(* Specification of the script: main() of main.py and the process exit     *)
(*                                                                         *)
(* script.commits lists the positions of the rows of affected_laws that    *)
(* were committed; exit_code is the exit status of the process, "none"     *)
(* while it runs.                                                          *)
(***************************************************************************)
MaxAffected == 5

\* what can happen to one row of affected_laws in the loop of lines 142-192
RowOutcomes ==
  { "no_law", "empty_content", "parse_fails", "write_or_commit_fails",
    "unexpected_error", "committed" }

ScriptInit ==
  /\ script = [pc |-> "load", n |-> 0, pos |-> 0, processed_count |-> 0,
               skipped_count |-> 0, commits |-> << >>, exit_code |-> "none"]
  /\ namer = NamerIdle
  /\ lookup = LookupIdle
  /\ manual = ManualIdle
  /\ builder = BuilderIdle
  /\ RunIdle

\* sys.exit(1)
SysExit1 == [script EXCEPT !.pc = "exited", !.exit_code = "1"]

\* main() returns and the interpreter ends with status 0
ReturnFromMain == [script EXCEPT !.pc = "exited", !.exit_code = "0"]

\* lines 42-80: validate_data_files and reading the CSV and BSON files
LoadDataFiles ==
  /\ script.pc = "load"
  /\ \E ok \in BOOLEAN :
       script' = IF ok THEN [script EXCEPT !.pc = "validate_id"] ELSE SysExit1
  /\ UNCHANGED <<namer, lookup, manual, builder, runVars>>

\* lines 85-95: get_law_code(law_id, osnovni)
ValidateLawId ==
  /\ script.pc = "validate_id"
  /\ \E found \in BOOLEAN :
       script' = IF found THEN [script EXCEPT !.pc = "affected"] ELSE SysExit1
  /\ UNCHANGED <<namer, lookup, manual, builder, runVars>>

\* lines 97-112: affected_laws; with no row main() returns
FindAffectedLaws ==
  /\ script.pc = "affected"
  /\ \E n \in 0..MaxAffected :
       script' = IF n = 0 THEN ReturnFromMain
                 ELSE [script EXCEPT !.pc = "setup", !.n = n]
  /\ UNCHANGED <<namer, lookup, manual, builder, runVars>>

\* lines 114-136: the output directory and Repo.init
SetUpOutput ==
  /\ script.pc = "setup"
  /\ \E ok \in BOOLEAN :
       script' = IF ok THEN [script EXCEPT !.pc = "loop"] ELSE SysExit1
  /\ UNCHANGED <<namer, lookup, manual, builder, runVars>>

\* one iteration of the loop of lines 142-192
ProcessAffectedLaw ==
  /\ script.pc = "loop"
  /\ script.pos < script.n
  /\ \E outcome \in RowOutcomes :
       script' = IF outcome = "committed"
                 THEN [script EXCEPT
                         !.pos = script.pos + 1,
                         !.processed_count = script.processed_count + 1,
                         !.commits = Append(script.commits, script.pos + 1)]
                 ELSE [script EXCEPT
                         !.pos = script.pos + 1,
                         !.skipped_count = script.skipped_count + 1]
  /\ UNCHANGED <<namer, lookup, manual, builder, runVars>>

\* lines 194-199: the summary; both branches only log, and main() returns
ScriptSummary ==
  /\ script.pc = "loop"
  /\ script.pos = script.n
  /\ script' = ReturnFromMain
  /\ UNCHANGED <<namer, lookup, manual, builder, runVars>>

ScriptNext ==
  \/ LoadDataFiles
  \/ ValidateLawId
  \/ FindAffectedLaws
  \/ SetUpOutput
  \/ ProcessAffectedLaw
  \/ ScriptSummary

SpecScript == ScriptInit /\ [][ScriptNext]_vars

(***************************************************************************)
(* Claims about the process exit (SpecScript)                              *)
(***************************************************************************)
\* C20 (as claimed): the process ends in success exactly when at least one
\* version was committed.
C20_SuccessIffCommitted ==
  script.pc = "exited" =>
    (script.exit_code = "0" <=> Len(script.commits) >= 1)

(***************************************************************************)
(* Claims about the fatal checks of convert_law (SpecRun)                  *)
(***************************************************************************)
\* nothing of the repository exists and the loop was not entered
NoRepositoryEffect ==
  /\ repo = "none"
  /\ worktree = EmptyTree
  /\ index = EmptyTree
  /\ commits = << >>
  /\ law_timeline = << >>
  /\ pos = 0
  /\ processed_count = 0
  /\ skipped_count = 0

\* C21: the fatal checks come before any repository effect.  While access
\* validation and loading are pending nothing of the repository exists; a
\* run that ends at one of these two steps returns False and has initialised
\* no repository, written no file, made no commit and taken no entry; and a
\* repository is only ever initialised after versions were loaded.
C21_FatalChecksFirst ==
  /\ []( /\ pc \in {"validate_api", "load"} => NoRepositoryEffect
         /\ (pc = "done" /\ law_versions = << >>)
              => (result = "False" /\ NoRepositoryEffect)
         /\ repo # "none" => law_versions # << >> )
  /\ [][ (pc \in {"validate_api", "load"} /\ pc' = "done")
           => /\ result' = "False"
              /\ law_versions' = << >>
              /\ repo' = "none"
              /\ worktree' = EmptyTree
              /\ index' = EmptyTree
              /\ commits' = << >>
              /\ pos' = 0
       ]_vars

\* C21 witness: the law has three NPB records, one with a date that cannot be
\* converted; loading raised, and the run ended in failure with no
\* repository.
C21_Witness ==
  /\ pc = "done"
  /\ result = "False"
  /\ api.found
  /\ Len(api.npb_versions) = 3
  /\ \E i \in 1..3 : api.npb_versions[i].datumDokumenta = BadDate
  /\ law_versions = << >>
  /\ NoRepositoryEffect

(***************************************************************************)
(* Specification of the commit message: extract_law_metadata and           *)
(* generate_commit_message for one row of the DataFrame                    *)
(***************************************************************************)
\* rows as get_historical_npb_versions builds them: the name of the version
\* (KRATICA and _amendment_name), the NPB id, the title, and the government
\* metadata of a base law with or without a ministry and an adopting body
MessageRows ==
  { [SoundRow(20061126) EXCEPT
       !.ID = id, !.KRATICA = name, !.amendment_name = name, !.NASLOV = title,
       !.government_metadata = GovernmentMetadata(ministry, body)] :
      id \in { Str(101), Str(102) },
      name \in { ZDoh2, ZDoh2 \o << "A" >>, << >> },
      title \in { NpbTitle, NazivA, << >> },
      ministry \in { << >>, MinistrstvoZaFinance },
      body \in { << >>, DrzavniZbor } }

MessageInit ==
  /\ \E law_row \in MessageRows :
       builder = [pc |-> "message", law_row |-> law_row,
                  metadata |-> ExtractLawMetadata(law_row),
                  commit_message |-> << >>]
  /\ namer = NamerIdle
  /\ lookup = LookupIdle
  /\ manual = ManualIdle
  /\ script = ScriptIdle
  /\ RunIdle

GenerateCommitMessageCall ==
  /\ builder.pc = "message"
  /\ builder' = [builder EXCEPT
        !.pc = "messaged",
        !.commit_message = GenerateCommitMessage(builder.metadata)]
  /\ UNCHANGED <<namer, lookup, manual, script, runVars>>

MessageNext == GenerateCommitMessageCall

SpecMessage == MessageInit /\ [][MessageNext]_vars

(***************************************************************************)
(* Claims about the commit message (SpecMessage)                           *)
(***************************************************************************)
\* "{amendment_name} - {version_id} - {title}" of a row
FirstLineOf(law_row) ==
  law_row.amendment_name \o << " ", "-", " " >> \o law_row.ID
    \o << " ", "-", " " >> \o law_row.NASLOV

\* C22: the message starts with "{amendment_name} - {version_id} - {title}";
\* when government_info is empty the message is that line alone, otherwise
\* the line is followed by a line break and the government_info, which names
\* the preparing ministry and the adopting body that the base law has.
C22_CommitMessageForm ==
  builder.pc = "messaged" =>
    LET first == FirstLineOf(builder.law_row)
        message == builder.commit_message
        government == builder.law_row.government_metadata
        info == government.government_info
    IN /\ Len(message) >= Len(first)
       /\ SubSeq(message, 1, Len(first)) = first
       /\ info = << >> <=> message = first
       /\ info # << >> =>
            /\ Len(message) = Len(first) + 1 + Len(info)
            /\ message[Len(first) + 1] = "\n"
            /\ SubSeq(message, Len(first) + 2, Len(message)) = info
            /\ government.responsible_ministry # << >> =>
                 Contains(PreparedBy \o government.responsible_ministry, info)
            /\ government.adopting_body # << >> =>
                 Contains(AdoptedBy \o government.adopting_body, info)
       /\ info = << >> <=>
            (government.responsible_ministry = << >>
               /\ government.adopting_body = << >>)

\* C22 witness: version "ZDoh-2A" of a law with a ministry and an adopting
\* body; the message has the two lines.
C22_Witness ==
  /\ builder.pc = "messaged"
  /\ builder.law_row.amendment_name = ZDoh2 \o << "A" >>
  /\ builder.law_row.ID = Str(102)
  /\ builder.law_row.NASLOV = NpbTitle
  /\ builder.commit_message =
       << "Z", "D", "o", "h", "-", "2", "A", " ", "-", " ", "1", "0", "2",
          " ", "-", " ", "Z", "D", "o", "h", "\n" >>
       \o PreparedBy \o MinistrstvoZaFinance \o << " ", "|", " " >>
       \o AdoptedBy \o DrzavniZbor

(***************************************************************************)
(* Claims about the order of naming and of processing (SpecRun)            *)
(***************************************************************************)
\* _version_number of the row of law_versions with the given ID
VersionNumberOf(law_id) ==
  law_versions[CHOOSE i \in 1..Len(law_versions) :
                 law_versions[i].ID = law_id].version_number

\* every NPB record of the law has a date, and no two have the same one
DatesPresentAndDistinct ==
  /\ \A i \in 1..Len(api.npb_versions) :
       Parseable(api.npb_versions[i].datumDokumenta)
  /\ \A i, j \in 1..Len(api.npb_versions) :
       i # j => api.npb_versions[i].datumDokumenta
                  # api.npb_versions[j].datumDokumenta

\* C23 (as claimed): the timeline is in ascending _version_number order, so
\* that names are processed in the order in which they were assigned.  Stated
\* for laws whose records all carry a date and no two the same.
C23_TimelineInVersionOrder ==
  ( law_timeline # << >> /\ DatesPresentAndDistinct )
  => \A a, b \in 1..Len(law_timeline) :
       a < b => VersionNumberOf(law_timeline[a].law_id)
                  < VersionNumberOf(law_timeline[b].law_id)

(***************************************************************************)
(* Claims about skipped entries and the history (SpecRun)                  *)
(***************************************************************************)
\* C24 (as claimed): a skipped entry contributes nothing to the history:
\* the content of every file of every commit is the content that the entry
\* of that commit or of an earlier commit wrote to that path.
C24_SkippedLeavesNoTrace ==
  \A i \in 1..Len(commits) :
    \A p \in DOMAIN commits[i].tree :
      \E j \in 1..i :
        /\ commits[j].file = p
        /\ commits[j].tree[p] = commits[i].tree[p]

(***************************************************************************)
(* Claims about the responsible ministry of the versions (SpecRun)         *)
(***************************************************************************)
\* C25: every row of law_versions and every timeline entry carries the
\* responsible ministry of the base law; a version is dropped for want of a
\* ministry only when all are, and when the base law has none the timeline
\* is empty, the loop is never entered, no commit is made and convert_law
\* returns False.
C25_MinistryAllOrNothing ==
  /\ \A i \in 1..Len(law_versions) :
       law_versions[i].government_metadata.responsible_ministry
         = api.responsible_ministry
  /\ \A k \in 1..Len(law_timeline) :
       /\ law_timeline[k].government_metadata.responsible_ministry
            = api.responsible_ministry
       /\ api.responsible_ministry # << >>
  /\ api.responsible_ministry = << >> =>
       /\ law_timeline = << >>
       /\ pc # "loop"
       /\ pos = 0
       /\ commits = << >>
       /\ worktree = EmptyTree
       /\ pc = "done" => result = "False"
  /\ ( api.responsible_ministry # << >> /\ pc \in {"loop", "done"}
       /\ law_versions # << >> /\ repo # "none" )
       => \A i \in 1..Len(law_versions) :
            ( law_versions[i].date_accepted # NaT
              /\ law_versions[i].ID # NaN /\ law_versions[i].KRATICA # NaN
              /\ law_versions[i].NASLOV # NaN )
            => \E k \in 1..Len(law_timeline) :
                 law_timeline[k].law_id = law_versions[i].ID

\* C25 witness: a law with three dated NPB records whose base record names
\* no responsible ministry; the repository was opened, every row was dropped
\* and the run returned False without a commit.
C25_Witness ==
  /\ pc = "done"
  /\ api.found
  /\ api.responsible_ministry = << >>
  /\ Len(law_versions) = 3
  /\ \A i \in 1..3 : Parseable(law_versions[i].date_accepted)
  /\ repo = "open"
  /\ law_timeline = << >>
  /\ commits = << >>
  /\ result = "False"

(***************************************************************************)
(* Claims about the content of the timeline (SpecBuilder)                  *)
(***************************************************************************)
\* positions of the DataFrame whose row passes validate_law_data
ValidPositions ==
  { i \in 1..Len(builder.law_versions) : ValidateLawData(builder.law_versions[i]) }

\* C26: the timeline holds exactly the rows that pass validate_law_data:
\* its entries can be assigned one-to-one to the valid rows, each entry being
\* the metadata of its row, and of two entries with the same law_date the one
\* from the earlier row comes first.
C26_ExactlyValidRowsStable ==
  BuilderDone =>
    LET timeline == builder.timeline
        rows == builder.law_versions
    IN /\ Len(timeline) = Cardinality(ValidPositions)
       /\ \E f \in [1..Len(timeline) -> ValidPositions] :
            /\ \A a, b \in 1..Len(timeline) : a # b => f[a] # f[b]
            /\ \A a \in 1..Len(timeline) :
                 timeline[a] = ExtractLawMetadata(rows[f[a]])
            /\ \A a, b \in 1..Len(timeline) :
                 (a < b /\ timeline[a].law_date = timeline[b].law_date)
                   => f[a] < f[b]

\* C26 witness: rows 1 and 3 have the same date, row 2 an earlier one; the
\* timeline is row 2, row 1, row 3.
C26_Witness ==
  /\ BuilderDone
  /\ Len(builder.law_versions) = 3
  /\ \A i \in 1..3 : builder.law_versions[i].ID = Str(100 + i)
  /\ builder.law_versions[1].date_accepted = 20061126
  /\ builder.law_versions[2].date_accepted = 19991231
  /\ builder.law_versions[3].date_accepted = 20061126
  /\ Len(builder.timeline) = 3
  /\ builder.timeline[1].law_id = Str(102)
  /\ builder.timeline[2].law_id = Str(101)
  /\ builder.timeline[3].law_id = Str(103)

(***************************************************************************)
(* Claims about the lookup by ministry code (SpecManual)                   *)
(***************************************************************************)
\* positions of the ministers of term k with the queried code whose closed
\* tenure holds the law_date
InOfficeWithCode(k) ==
  { j \in 1..Len(manual.governments[k].ministers) :
      /\ manual.governments[k].ministers[j].ministry_code = manual.ministry_code
      /\ InClosedInterval(manual.governments[k].ministers[j].start_date,
                          manual.governments[k].ministers[j].end_date,
                          manual.law_date) }

\* C27: get_minister_by_ministry_code_and_date looks only into the first
\* term in stored order whose period holds the date.  It returns the name of
\* the first minister of that term with the queried code and a tenure that
\* holds the date, and None when that term has none, whatever later terms
\* hold; and None when no term holds the date.
C27_OnlyFirstTermConsulted ==
  manual.pc \in {"flat", "done"} =>
    LET holding == { k \in 1..Len(manual.governments) :
                       TermContains(k, manual.law_date) }
        first == CHOOSE k \in holding : \A h \in holding : k <= h
    IN IF holding = {} THEN manual.minister = ManualNone
       ELSE IF InOfficeWithCode(first) = {} THEN manual.minister = ManualNone
       ELSE LET j == CHOOSE x \in InOfficeWithCode(first) :
                       \A y \in InOfficeWithCode(first) : x <= y
            IN manual.minister =
                 [kind |-> "found",
                  name |-> manual.governments[first].ministers[j].name]

\* C27 witness: two terms hold 2012-01-05; the first has a finance minister
\* who took office later, the second one who is in office that day; the
\* answer is None.
C27_Witness ==
  /\ manual.pc = "done"
  /\ Len(manual.governments) = 2
  /\ manual.law_date = 20120105
  /\ TermContains(1, manual.law_date)
  /\ TermContains(2, manual.law_date)
  /\ manual.governments[1].ministers = << Sustersic >>
  /\ manual.governments[2].ministers = << Krizanic >>
  /\ manual.ministry_code = "MF"
  /\ InOfficeWithCode(2) = {1}
  /\ manual.minister = ManualNone

(***************************************************************************)
(* Claims about what find_minister may return (SpecLookup)                 *)
(***************************************************************************)
\* C28 (as claimed): an appointment is returned only if one of its ministry
\* names and the query are non-empty and one contains the other, ignoring
\* case; neither a missing 'en' or 'sl' name nor an empty query makes an
\* unrelated ministry match.
C28_OnlyRelatedMinistries ==
  ( LookupDone /\ lookup.result.kind = "found" )
  => \E j \in 1..Len(lookup.ministers) :
       /\ lookup.result = Returned(lookup.ministers[j], lookup.language)
       /\ RelatedEitherDirection(lookup.ministers[j], lookup.ministry)

(***************************************************************************)
(* Specification of the fallback naming: _determine_amendment_name for a   *)
(* dated record of a law whose amendment events carry no code              *)
(***************************************************************************)
MaxSequenceNumber == 704

FallbackInit ==
  /\ namer \in [ pc : {"call"},
                 npb_date : {20070601},
                 version_number : 1..MaxSequenceNumber,
                 amendments : { << >>, << NazivPlain >> },
                 base_kratica : BaseKraticas,
                 amendment_name : {"unset"} ]
  /\ lookup = LookupIdle
  /\ AuxIdle
  /\ RunIdle

SpecFallback == FallbackInit /\ [][NamerNext]_vars

(***************************************************************************)
(* Claims about the fallback naming (SpecFallback)                         *)
(***************************************************************************)
\* the letters 'A' .. 'Z'
UpperCaseLetters == { AsciiFrom65[i] : i \in 1..26 }

\* C29: the fallback naming is injective on the sequence numbers 2..703.
\* The name of such a number is the base code followed by one or two letters
\* A-Z, it is not the base code, and no other number in 2..703 gets the same
\* name for the same base code.
C29_FallbackInjective ==
  ( NamerDone /\ NoEventCodes /\ namer.version_number \in 2..703 )
  => LET name == namer.amendment_name
         base == namer.base_kratica
     IN /\ name # base
        /\ Len(name) - Len(base) \in {1, 2}
        /\ SubSeq(name, 1, Len(base)) = base
        /\ \A i \in (Len(base) + 1)..Len(name) : name[i] \in UpperCaseLetters
        /\ \A m \in 2..703 :
             m # namer.version_number
               => DetermineAmendmentName(namer.npb_date, m, namer.amendments, base)
                    # name

\* C29 witness: the last number of the range, 703, is named "ZDoh-2ZZ".
C29_Witness ==
  /\ NamerDone
  /\ NoEventCodes
  /\ namer.version_number = 703
  /\ namer.base_kratica = ZDoh2
  /\ namer.amendment_name = ZDoh2 \o << "Z", "Z" >>

(***************************************************************************)
(* combine_ministers.find_minister_by_ministry_and_date, the resolver of   *)
(* the script that builds the registry                                     *)
(***************************************************************************)
\* the result dict of lines 117-144, when building it does not raise
CombinedResult(minister, language) ==
  [kind |-> "found", name |-> minister.name,
   start_date |-> minister.start_date, end_date |-> minister.end_date,
   ministry |-> IF minister.ministry.kind = "dict"
                THEN IF language = "sl" /\ minister.ministry.has_sl
                     THEN minister.ministry.sl
                     ELSE minister.ministry.en
                ELSE minister.ministry.text]

\* the loop of lines 95-144 with the test start_date <= query_date < end_date
RECURSIVE FindMinisterByMinistryAndDateFrom_EndExclusive(_, _, _, _, _)
FindMinisterByMinistryAndDateFrom_EndExclusive(j, ministers, ministry_name, query_date, language) ==
  IF j > Len(ministers) THEN NoneResult
  ELSE LET minister == ministers[j]
           ministry_en == Lower(GetOrEmpty(minister.ministry.has_en, minister.ministry.en))
           ministry_sl == Lower(GetOrEmpty(minister.ministry.has_sl, minister.ministry.sl))
           ministry_match ==
             IF minister.ministry.kind = "dict"
             THEN \/ Contains(Lower(ministry_name), ministry_en)
                  \/ Contains(Lower(ministry_name), ministry_sl)
                  \/ Contains(ministry_en, Lower(ministry_name))
                  \/ Contains(ministry_sl, Lower(ministry_name))
             ELSE Contains(Lower(ministry_name), Lower(minister.ministry.text))
       IN IF ~ministry_match
          THEN FindMinisterByMinistryAndDateFrom_EndExclusive(
                 j + 1, ministers, ministry_name, query_date, language)
          ELSE IF ~Parseable(minister.start_date) \/ ~Parseable(minister.end_date)
          THEN RaiseResult
          ELSE IF minister.start_date <= query_date /\ query_date < minister.end_date
          THEN IF minister.ministry.kind = "dict" /\ ~minister.ministry.has_en
               THEN RaiseResult
               ELSE CombinedResult(minister, language)
          ELSE FindMinisterByMinistryAndDateFrom_EndExclusive(
                 j + 1, ministers, ministry_name, query_date, language)

\* the loop of lines 95-144 over data["ministers"] from position j on.
\* strptime of a missing start_date or end_date raises, and so does the
\* default argument minister["ministry"]["en"] of a bilingual field without
\* 'en'.
RECURSIVE FindMinisterByMinistryAndDateFrom(_, _, _, _, _)
FindMinisterByMinistryAndDateFrom(j, ministers, ministry_name, query_date, language) ==
  IF j > Len(ministers) THEN NoneResult
  ELSE LET minister == ministers[j]
           ministry_en == Lower(GetOrEmpty(minister.ministry.has_en, minister.ministry.en))
           ministry_sl == Lower(GetOrEmpty(minister.ministry.has_sl, minister.ministry.sl))
           ministry_match ==
             IF minister.ministry.kind = "dict"
             THEN \/ Contains(Lower(ministry_name), ministry_en)
                  \/ Contains(Lower(ministry_name), ministry_sl)
                  \/ Contains(ministry_en, Lower(ministry_name))
                  \/ Contains(ministry_sl, Lower(ministry_name))
             ELSE Contains(Lower(ministry_name), Lower(minister.ministry.text))
       IN IF ~ministry_match
          THEN FindMinisterByMinistryAndDateFrom(
                 j + 1, ministers, ministry_name, query_date, language)
          ELSE IF ~Parseable(minister.start_date) \/ ~Parseable(minister.end_date)
          THEN RaiseResult
          ELSE IF minister.start_date <= query_date /\ query_date <= minister.end_date
          THEN IF minister.ministry.kind = "dict" /\ ~minister.ministry.has_en
               THEN RaiseResult
               ELSE CombinedResult(minister, language)
          ELSE FindMinisterByMinistryAndDateFrom(
                 j + 1, ministers, ministry_name, query_date, language)

\* find_minister_by_ministry_and_date(ministry_name, date, language) on the
\* ministers of the data file
FindMinisterByMinistryAndDate(ministers, ministry_name, date, language) ==
  IF ~Parseable(date) THEN RaiseResult
  ELSE FindMinisterByMinistryAndDateFrom(1, ministers, ministry_name, date, language)

(***************************************************************************)
(* Specification of the two resolvers: both asked the same question on one *)
(* data file                                                               *)
(***************************************************************************)
MaxRecords == 2

\* ministry fields of the records: plain names, bilingual names, a bilingual
\* name that the query "Ministrstvo za finance" contains, and a bilingual
\* record without the 'en' name
ResolverFields ==
  { PlainMinistry(MinistrstvoZaFinance),
    PlainMinistry(<< >>),
    DictMinistry(TRUE, MinistryOfFinance, TRUE, MinistrstvoZaFinance),
    DictMinistry(TRUE, Finance, TRUE, Financ),
    DictMinistry(TRUE, MinistryOfHealth, TRUE, MinistrstvoZaZdravje),
    DictMinistry(FALSE, << >>, TRUE, MinistrstvoZaZdravje) }

ResolverRegistries ==
  UNION { { [j \in 1..k |->
               [name |-> Officeholders[j], ministry |-> f[j][1],
                start_date |-> f[j][2][1], end_date |-> f[j][2][2]]] :
            f \in [1..k -> ResolverFields \X Tenures] } :
          k \in 0..MaxRecords }

\* the date: inside the first tenure, its last day, and a string that is no
\* date
ResolverDates == { 20100515, 20120310, BadDate }

ResolverInit ==
  /\ \E ministers \in ResolverRegistries, ministry \in MinistryQueries,
        date \in ResolverDates, language \in Languages :
       lookup = [pc |-> "combine",
                 data_file |-> ministers,
                 ministers |-> ministers,
                 ministry |-> ministry,
                 date |-> date,
                 language |-> language,
                 combined |-> NoneResult,
                 result |-> NoneResult,
                 again |-> NoneResult]
  /\ namer = NamerIdle
  /\ AuxIdle
  /\ RunIdle

FindMinisterByMinistryAndDateCall ==
  /\ lookup.pc = "combine"
  /\ lookup' = [lookup EXCEPT
        !.pc = "call",
        !.combined = FindMinisterByMinistryAndDate(lookup.data_file, lookup.ministry,
                                                   lookup.date, lookup.language)]
  /\ UNCHANGED <<namer, auxVars, runVars>>

ResolverNext ==
  \/ FindMinisterByMinistryAndDateCall
  \/ FindMinisterCall

SpecResolvers == ResolverInit /\ [][ResolverNext]_vars

====
